---------------------------- MODULE Spec2Model ----------------------------
(***************************************************************************)
(* PetitParser-TS: the parse context and result algebra, the primitive     *)
(* parsers and the combinators, modelled as they are written in the        *)
(* TypeScript sources.  A parser graph is a heap of nodes; parseOn is the  *)
(* interpreter of a node on a context and returns the result together with *)
(* the log of every parseOn invocation and every action callback it made.  *)
(* Spec applies the parsing operations to a fixed library of grammars,     *)
(* SpecGraph builds and rewires a graph of parsers and reflects on it,     *)
(* SpecComposite runs the life of a CompositeParser.                        *)
(***************************************************************************)
EXTENDS Integers, Sequences, FiniteSets, TLC

VARIABLES op, result, log, heap, composite, returned

vars == <<op, result, log, heap, composite, returned>>

---------------------------------------------------------------------------
(* Bounds of the model                                                     *)

\* longest generated input
MaxLen == 3
\* most parsers created one at a time in a graph of parsers
MaxNodes == 3
\* most parsers that the definitions of a composite grammar create
MaxDefinitions == 2
\* most parsers in an enumerated graph of SpecStructure
MaxParsers == 2
\* largest max of a generated repeater
MaxRepeat == 2
\* the sequences and choices of three children are built from the first
\* MaxOperand operands
MaxOperand == 4

---------------------------------------------------------------------------
(* JavaScript values                                                       *)

\* the value of an omitted optional argument: position?: number
undefined == -1

\* a || b on numbers: 0 and undefined are falsy
JsOr(a, b) == IF a # undefined /\ a # 0 THEN a ELSE b

\* a < b where a may be undefined (undefined converts to NaN)
JsLess(a, b) == a # undefined /\ a < b

Undefined == [t |-> "undefined"]
Null == [t |-> "null"]
Chr(c) == [t |-> "char", c |-> c]
List(items) == [t |-> "list", items |-> items]
\* an unbound method reference such as result.getValue (no call)
MethodRef(name) == [t |-> "function", name |-> name]
\* the opaque value a user callback returns for an argument
Applied(f, arg) == [t |-> "applied", f |-> f, arg |-> arg]

\* a parser object used as a value
ParserRef(id) == [t |-> "parser", id |-> id]

\* String.charCodeAt for the characters of the model's inputs
charCodeAt(c) ==
    CASE c = " " -> 32
      [] c = "," -> 44
      [] c = "1" -> 49
      [] c = "2" -> 50
      [] c = "3" -> 51
      [] c = "a" -> 97
      [] c = "b" -> 98
      [] c = "c" -> 99

---------------------------------------------------------------------------
(* Context and Result (context.ts)                                         *)

NoMessage == "null"

Context(buffer, position) ==
    [kind |-> "Context", buffer |-> buffer, position |-> position,
     value |-> Undefined, message |-> NoMessage]

Success(buffer, position, value) ==
    [kind |-> "Success", buffer |-> buffer, position |-> position,
     value |-> value, message |-> NoMessage]

Failure(buffer, position, message) ==
    [kind |-> "Failure", buffer |-> buffer, position |-> position,
     value |-> Undefined, message |-> message]

\* an exception leaving parseOn
Throw(error, failure) ==
    [kind |-> "Throw", buffer |-> failure.buffer, position |-> failure.position,
     value |-> Undefined, message |-> error]

\* a loop of parseOn that never ends
Diverge(context) ==
    [kind |-> "Diverge", buffer |-> context.buffer, position |-> context.position,
     value |-> Undefined, message |-> NoMessage]

isSuccess(r) == r.kind = "Success"
isFailure(r) == r.kind = "Failure"
Abrupt(r) == r.kind \in {"Throw", "Diverge"}

\* Context.success(result, position?)
ContextSuccess(this, value, position) ==
    Success(this.buffer, JsOr(this.position, position), value)

\* Context.failure(message, position?)
ContextFailure(this, message, position) ==
    Failure(this.buffer, JsOr(this.position, position), message)

\* Token(value, buffer, start, stop)
Token(value, buffer, start, stop) ==
    [t |-> "token", value |-> value, buffer |-> buffer, start |-> start, stop |-> stop]

---------------------------------------------------------------------------
(* Parser nodes                                                            *)

\* the null reference in a child slot a class does not have
Nil == 0

Node(kind) ==
    [kind |-> kind, delegate |-> Nil, parsers |-> <<>>, limit |-> Nil,
     trimmer |-> Nil, min |-> 0, max |-> 0, message |-> NoMessage,
     matcher |-> [type |-> "none", value |-> 0], func |-> "none",
     result |-> Undefined, otherwise |-> Undefined,
     closure |-> [separator |-> Nil, includeSeparators |-> FALSE,
                  optionalSeparatorAtEnd |-> FALSE],
     array |-> Nil, active |-> {}]

SingleCharMatcher(c) == [type |-> "single", value |-> charCodeAt(c)]
DigitCharMatcher == [type |-> "digit", value |-> 0]
LetterCharMatcher == [type |-> "letter", value |-> 0]
WhitespaceCharMatcher == [type |-> "whitespace", value |-> 0]

\* _CharMatcher.match(value) of the matcher classes
CharMatcher_match(m, value) ==
    CASE m.type = "single" -> m.value = value
      [] m.type = "digit" -> value >= 48 /\ value <= 57
      [] m.type = "letter" -> (value >= 65 /\ value <= 90) \/ (value >= 97 /\ value <= 122)
      [] m.type = "whitespace" ->
            value \in {9, 10, 11, 12, 13, 32, 133, 160}
      [] OTHER -> FALSE

CharacterParser(matcher, message) ==
    [Node("Character") EXCEPT !.matcher = matcher, !.message = message]
char(c) == CharacterParser(SingleCharMatcher(c), c \o " expected")
digit == CharacterParser(DigitCharMatcher, "digit expected")
letter == CharacterParser(LetterCharMatcher, "letter expected")
whitespace == CharacterParser(WhitespaceCharMatcher, "whitespace expected")
epsilon == [Node("Epsilon") EXCEPT !.result = Undefined]
failure == [Node("Failure") EXCEPT !.message = "unable to parse"]
SequenceParser(parsers) == [Node("Sequence") EXCEPT !.parsers = parsers]
ChoiceParser(parsers) == [Node("Choice") EXCEPT !.parsers = parsers]
DelegateParser(delegate) == [Node("Delegate") EXCEPT !.delegate = delegate]
SetableParser(parser) == [Node("Setable") EXCEPT !.delegate = parser]
OptionalParser(parser, otherwise) ==
    [Node("Optional") EXCEPT !.delegate = parser, !.otherwise = otherwise]
AndParser(parser) == [Node("And") EXCEPT !.delegate = parser]
ActionParser(parser, func) == [Node("Action") EXCEPT !.delegate = parser, !.func = func]
TokenParser(parser) == [Node("Token") EXCEPT !.delegate = parser]
TrimmingParser(parser, trimmer) ==
    [Node("Trimming") EXCEPT !.delegate = parser, !.trimmer = trimmer]
PossessiveRepeatingParser(parser, min, max) ==
    [Node("PossessiveRepeating") EXCEPT !.delegate = parser, !.min = min, !.max = max]
GreedyRepeatingParser(parser, limit, min, max) ==
    [Node("GreedyRepeating") EXCEPT !.delegate = parser, !.limit = limit,
                                    !.min = min, !.max = max]
LazyRepeatingParser(parser, limit, min, max) ==
    [Node("LazyRepeating") EXCEPT !.delegate = parser, !.limit = limit,
                                  !.min = min, !.max = max]

ContinuationParser(parser, handler) ==
    [Node("Continuation") EXCEPT !.delegate = parser, !.func = handler]
\* a CompositeParser as a parser of a graph: a DelegateParser by its class
CompositeParser(delegate) == [Node("Composite") EXCEPT !.delegate = delegate]

\* the max that star and plus pass to repeat
Unbounded == 65536

---------------------------------------------------------------------------
(* The invocation log                                                      *)

\* one parseOn invocation: the node, the context it got, what it returned
Invocation(depth, parser, context, res) ==
    [depth |-> depth, type |-> "parseOn", parser |-> parser,
     context |-> context, result |-> res, func |-> "none", arg |-> Undefined]

\* one call of an action callback
Callback(depth, parser, func, arg) ==
    [depth |-> depth, type |-> "func", parser |-> parser,
     context |-> Context(<<>>, 0), result |-> Context(<<>>, 0),
     func |-> func, arg |-> arg]

Ret(res, lg) == [res |-> res, log |-> lg]

---------------------------------------------------------------------------
(* parseOn                                                                 *)

RECURSIVE parseOn(_, _, _, _)
RECURSIVE SequenceParser_loop(_, _, _, _, _, _, _)
RECURSIVE ChoiceParser_loop(_, _, _, _, _, _)
RECURSIVE TrimmingParser_loop(_, _, _, _, _, _)
RECURSIVE RepeatingParser_min(_, _, _, _, _, _)
RECURSIVE PossessiveRepeatingParser_max(_, _, _, _, _, _)
RECURSIVE GreedyRepeatingParser_max(_, _, _, _, _, _, _)
RECURSIVE GreedyRepeatingParser_limit(_, _, _, _, _, _)
RECURSIVE LazyRepeatingParser_loop(_, _, _, _, _, _)

\* _CharacterParser.parseOn
CharacterParser_parseOn(n, context) ==
    LET buffer == context.buffer
        position == context.position
    IN  IF JsLess(position, Len(buffer))
           /\ CharMatcher_match(n.matcher, charCodeAt(buffer[position + 1]))
        THEN ContextSuccess(context, Chr(buffer[position + 1]), position + 1)
        ELSE ContextFailure(context, n.message, undefined)

\* _EpsilonParser.parseOn
EpsilonParser_parseOn(n, context) == ContextSuccess(context, n.result, undefined)

\* _FailureParser.parseOn
FailureParser_parseOn(n, context) == ContextFailure(context, n.message, undefined)

\* the for loop of a sequence that goes on to the next child after a failure
SequenceParser_loop_pastFailure(h, n, d, i, current, elements, lg) ==
    IF i > Len(n.parsers)
    THEN Ret(ContextSuccess(current, List(elements), undefined), lg)
    ELSE LET r == parseOn(h, n.parsers[i], current, d + 1)
         IN  IF Abrupt(r.res) \/ (isFailure(r.res) /\ i = Len(n.parsers))
             THEN Ret(r.res, lg \o r.log)
             ELSE SequenceParser_loop(h, n, d, i + 1, r.res,
                                      Append(elements, r.res.value), lg \o r.log)

\* _SequenceParser.parseOn: the for loop from index i on
SequenceParser_loop(h, n, d, i, current, elements, lg) ==
    IF i > Len(n.parsers)
    THEN Ret(ContextSuccess(current, List(elements), undefined), lg)
    ELSE LET r == parseOn(h, n.parsers[i], current, d + 1)
         IN  IF Abrupt(r.res) \/ isFailure(r.res)
             THEN Ret(r.res, lg \o r.log)
             ELSE SequenceParser_loop(h, n, d, i + 1, r.res,
                                      Append(elements, r.res.value), lg \o r.log)

SequenceParser_parseOn(h, n, context, d) ==
    SequenceParser_loop(h, n, d, 1, context, <<>>, <<>>)

\* the for loop of a choice that hands the failed result to the next
\* alternative instead of the original context
ChoiceParser_loop_fromFailure(h, n, d, i, context, lg) ==
    LET r == parseOn(h, n.parsers[i], context, d + 1)
    IN  IF Abrupt(r.res) \/ isSuccess(r.res) \/ i = Len(n.parsers)
        THEN Ret(r.res, lg \o r.log)
        ELSE ChoiceParser_loop(h, n, d, i + 1, r.res, lg \o r.log)

\* _ChoiceParser.parseOn: the for loop from index i on
ChoiceParser_loop(h, n, d, i, context, lg) ==
    LET r == parseOn(h, n.parsers[i], context, d + 1)
    IN  IF Abrupt(r.res) \/ isSuccess(r.res) \/ i = Len(n.parsers)
        THEN Ret(r.res, lg \o r.log)
        ELSE ChoiceParser_loop(h, n, d, i + 1, context, lg \o r.log)

ChoiceParser_parseOn(h, n, context, d) ==
    ChoiceParser_loop(h, n, d, 1, context, <<>>)

\* a callback applied to a value: t -> t.value reads the token, any other
\* function is opaque
CallFunc(f, v) ==
    IF f = "tokenValue"
    THEN (IF v.t = "token" THEN v.value ELSE Undefined)
    ELSE Applied(f, v)

\* the decimal digits, as the characters of an array's property names
DigitChars == <<"0", "1", "2", "3", "4", "5", "6", "7", "8", "9">>

\* String(k): the property name of index k of an array
RECURSIVE NumberToString(_)
NumberToString(k) ==
    IF k < 10 THEN <<DigitChars[k + 1]>>
    ELSE Append(NumberToString(k \div 10), DigitChars[(k % 10) + 1])

\* s[i] on a string and list[i] on an array: undefined past the end
StringAt(s, i) == IF i < Len(s) THEN Chr(s[i + 1]) ELSE Undefined
ListAt(list, i) ==
    IF list.t = "list" /\ i < Len(list.items) THEN list.items[i + 1] ELSE Undefined

\* the loop of the callback of separatedBy: for (var tuple in list[1]),
\* tuple being the property name of index k
RECURSIVE separatedBy_loop(_, _, _, _)
separatedBy_loop(closure, length, k, pushed) ==
    IF k >= length THEN pushed
    ELSE LET tuple == NumberToString(k)
         IN  separatedBy_loop(closure, length, k + 1,
                 IF closure.includeSeparators
                 THEN pushed \o <<StringAt(tuple, 0), StringAt(tuple, 1)>>
                 ELSE Append(pushed, StringAt(tuple, 1)))

\* the callback separatedBy hands to map
separatedBy_func(closure, list) ==
    LET tuples == ListAt(list, 1)
        pushed == separatedBy_loop(closure,
                                   IF tuples.t = "list" THEN Len(tuples.items) ELSE 0,
                                   0, <<ListAt(list, 0)>>)
    IN  IF closure.includeSeparators /\ closure.optionalSeparatorAtEnd
           /\ ListAt(list, 2) = ParserRef(closure.separator)
        THEN List(Append(pushed, ListAt(list, 2)))
        ELSE List(pushed)

\* this._func(value) of an action parser
ActionParser_call(n, v) ==
    IF n.func = "separatedBy" THEN separatedBy_func(n.closure, v)
    ELSE CallFunc(n.func, v)

\* the truth value of an expression used as a condition: a method that is
\* named but not called is an object, and every object is truthy
JsTruthy(v) == v.t \notin {"undefined", "null"}

\* DelegateParser.parseOn, inherited by SetableParser and CompositeParser
DelegateParser_parseOn(h, n, p, context, d) ==
    parseOn(h, n.delegate, context, d + 1)

\* _OptionalParser.parseOn
OptionalParser_parseOn(h, n, p, context, d) ==
    LET r == parseOn(h, n.delegate, context, d + 1)
    IN  IF Abrupt(r.res) \/ isSuccess(r.res) THEN r
        ELSE Ret(ContextSuccess(context, n.otherwise, undefined), r.log)

\* _AndParser.parseOn
AndParser_parseOn(h, n, p, context, d) ==
    LET r == parseOn(h, n.delegate, context, d + 1)
    IN  IF Abrupt(r.res) THEN r
        ELSE IF isSuccess(r.res)
        THEN Ret(ContextSuccess(context, MethodRef("getValue"), undefined), r.log)
        ELSE r

\* _ActionParser.parseOn
ActionParser_parseOn(h, n, p, context, d) ==
    LET r == parseOn(h, n.delegate, context, d + 1)
    IN  IF Abrupt(r.res) THEN r
        ELSE IF JsTruthy(MethodRef("isSuccess"))
        THEN IF isFailure(r.res)
             THEN Ret(Throw("ParserError", r.res), r.log)
             ELSE Ret(ContextSuccess(r.res, ActionParser_call(n, r.res.value), undefined),
                      Append(r.log, Callback(d + 1, p, n.func, r.res.value)))
        ELSE r

\* _TokenParser.parseOn
TokenParser_parseOn(h, n, p, context, d) ==
    LET r == parseOn(h, n.delegate, context, d + 1)
    IN  IF Abrupt(r.res) THEN r
        ELSE IF JsTruthy(MethodRef("isSuccess"))
        THEN Ret(ContextSuccess(r.res,
                                Token(MethodRef("getValue"), context.buffer,
                                      context.position, r.res.position),
                                undefined),
                 r.log)
        ELSE r

\* _TrimmingParser.parseOn: do { current = trimmer.parseOn(current) }
\* while (current.isSuccess()); seen holds the positions the loop has been at
TrimmingParser_loop(h, n, d, current, seen, lg) ==
    LET r == parseOn(h, n.trimmer, current, d + 1)
    IN  IF Abrupt(r.res) \/ ~isSuccess(r.res)
        THEN Ret(r.res, lg \o r.log)
        ELSE IF r.res.position \in seen \cup {current.position}
        THEN Ret(Diverge(r.res), lg \o r.log)
        ELSE TrimmingParser_loop(h, n, d, r.res, seen \cup {current.position},
                                 lg \o r.log)

\* _TrimmingParser.parseOn
TrimmingParser_parseOn(h, n, p, context, d) ==
    LET before == TrimmingParser_loop(h, n, d, context, {}, <<>>)
        r == parseOn(h, n.delegate, before.res, d + 1)
        after == TrimmingParser_loop(h, n, d, r.res, {}, before.log \o r.log)
    IN  IF Abrupt(before.res) THEN before
        ELSE IF Abrupt(r.res) THEN Ret(r.res, before.log \o r.log)
        ELSE IF JsTruthy(MethodRef("isFailure"))
        THEN Ret(r.res, before.log \o r.log)
        ELSE IF Abrupt(after.res) THEN after
        ELSE IF isFailure(r.res) THEN Ret(Throw("ParserError", r.res), after.log)
        ELSE Ret(ContextSuccess(after.res, r.res.value, undefined), after.log)

\* the first loop of the three repeaters: while (elements.length < this._min)
RepeatingParser_min(h, n, d, current, elements, lg) ==
    IF ~(Len(elements) < n.min)
    THEN [done |-> FALSE, res |-> current, elements |-> elements, log |-> lg]
    ELSE LET r == parseOn(h, n.delegate, current, d + 1)
         IN  IF Abrupt(r.res) \/ isFailure(r.res)
             THEN [done |-> TRUE, res |-> r.res, elements |-> elements,
                   log |-> lg \o r.log]
             ELSE RepeatingParser_min(h, n, d, r.res, Append(elements, r.res.value),
                                      lg \o r.log)

\* _PossessiveRepeatingParser.parseOn: while (elements.length < this._max)
PossessiveRepeatingParser_max(h, n, d, current, elements, lg) ==
    IF ~(Len(elements) < n.max)
    THEN Ret(ContextSuccess(current, List(elements), undefined), lg)
    ELSE LET r == parseOn(h, n.delegate, current, d + 1)
         IN  IF Abrupt(r.res) THEN Ret(r.res, lg \o r.log)
             ELSE IF isFailure(r.res)
             THEN Ret(ContextSuccess(current, List(elements), undefined), lg \o r.log)
             ELSE PossessiveRepeatingParser_max(h, n, d, r.res,
                                                Append(elements, r.res.value),
                                                lg \o r.log)

\* _PossessiveRepeatingParser.parseOn
PossessiveRepeatingParser_parseOn(h, n, p, context, d) ==
    LET m == RepeatingParser_min(h, n, d, context, <<>>, <<>>)
    IN  IF m.done THEN Ret(m.res, m.log)
        ELSE PossessiveRepeatingParser_max(h, n, d, m.res, m.elements, m.log)

\* _GreedyRepeatingParser.parseOn: while (elements.length < this._max),
\* recording the context reached after every step
GreedyRepeatingParser_max(h, n, d, current, contexts, elements, lg) ==
    IF ~(Len(elements) < n.max)
    THEN [done |-> FALSE, res |-> current, contexts |-> contexts,
          elements |-> elements, log |-> lg]
    ELSE LET r == parseOn(h, n.delegate, current, d + 1)
         IN  IF Abrupt(r.res)
             THEN [done |-> TRUE, res |-> r.res, contexts |-> contexts,
                   elements |-> elements, log |-> lg \o r.log]
             ELSE IF isFailure(r.res)
             THEN [done |-> FALSE, res |-> current, contexts |-> contexts,
                   elements |-> elements, log |-> lg \o r.log]
             ELSE GreedyRepeatingParser_max(h, n, d, r.res, Append(contexts, r.res),
                                            Append(elements, r.res.value), lg \o r.log)

\* _GreedyRepeatingParser.parseOn: while (true), trying the limit and
\* dropping the last step
GreedyRepeatingParser_limit(h, n, d, contexts, elements, lg) ==
    LET last == contexts[Len(contexts)]
        limit == parseOn(h, n.limit, last, d + 1)
    IN  IF Abrupt(limit.res) THEN Ret(limit.res, lg \o limit.log)
        ELSE IF isSuccess(limit.res)
        THEN Ret(ContextSuccess(last, List(elements), undefined), lg \o limit.log)
        ELSE IF Len(elements) = 0
        THEN Ret(limit.res, lg \o limit.log)
        ELSE IF Len(contexts) - 1 = 0
        THEN Ret(limit.res, lg \o limit.log)
        ELSE GreedyRepeatingParser_limit(h, n, d,
                                         SubSeq(contexts, 1, Len(contexts) - 1),
                                         SubSeq(elements, 1, Len(elements) - 1),
                                         lg \o limit.log)

\* _GreedyRepeatingParser.parseOn
GreedyRepeatingParser_parseOn(h, n, p, context, d) ==
    LET m == RepeatingParser_min(h, n, d, context, <<>>, <<>>)
        x == GreedyRepeatingParser_max(h, n, d, m.res, <<m.res>>, m.elements, m.log)
    IN  IF m.done THEN Ret(m.res, m.log)
        ELSE IF x.done THEN Ret(x.res, x.log)
        ELSE GreedyRepeatingParser_limit(h, n, d, x.contexts, x.elements, x.log)

\* _LazyRepeatingParser.parseOn: while (true)
LazyRepeatingParser_loop(h, n, d, current, elements, lg) ==
    LET limit == parseOn(h, n.limit, current, d + 1)
        r == parseOn(h, n.delegate, current, d + 1)
    IN  IF Abrupt(limit.res) THEN Ret(limit.res, lg \o limit.log)
        ELSE IF isSuccess(limit.res)
        THEN Ret(ContextSuccess(current, List(elements), undefined), lg \o limit.log)
        ELSE IF Len(elements) >= n.max
        THEN Ret(limit.res, lg \o limit.log)
        ELSE IF Abrupt(r.res) THEN Ret(r.res, lg \o limit.log \o r.log)
        ELSE IF isFailure(r.res)
        THEN Ret(limit.res, lg \o limit.log \o r.log)
        ELSE LazyRepeatingParser_loop(h, n, d, r.res, Append(elements, r.res.value),
                                      lg \o limit.log \o r.log)

\* _LazyRepeatingParser.parseOn
LazyRepeatingParser_parseOn(h, n, p, context, d) ==
    LET m == RepeatingParser_min(h, n, d, context, <<>>, <<>>)
    IN  IF m.done THEN Ret(m.res, m.log)
        ELSE LazyRepeatingParser_loop(h, n, d, m.res, m.elements, m.log)

\* heap h while parseOn of node p runs on context: the position is marked
\* as one at which p is on the call stack
Entered(h, p, context) == [h EXCEPT ![p].active = @ \cup {context.position}]

\* Parser.parseOn, dispatched on the class of node p of heap h; a node that
\* is entered again at a position at which it is still running recurses
\* until the stack is exhausted
parseOn(h, p, context, d) ==
    LET n == h[p]
        g == Entered(h, p, context)
        r == IF context.position \in n.active
             THEN Ret(Throw("RangeError", context), <<>>)
             ELSE
             CASE n.kind = "Character" -> Ret(CharacterParser_parseOn(n, context), <<>>)
               [] n.kind \in {"Delegate", "Setable"} ->
                      DelegateParser_parseOn(g, n, p, context, d)
               [] n.kind = "Optional" -> OptionalParser_parseOn(g, n, p, context, d)
               [] n.kind = "Epsilon" -> Ret(EpsilonParser_parseOn(n, context), <<>>)
               [] n.kind = "Failure" -> Ret(FailureParser_parseOn(n, context), <<>>)
               [] n.kind = "Sequence" -> SequenceParser_parseOn(g, n, context, d)
               [] n.kind = "Choice" -> ChoiceParser_parseOn(g, n, context, d)
               [] n.kind = "And" -> AndParser_parseOn(g, n, p, context, d)
               [] n.kind = "Action" -> ActionParser_parseOn(g, n, p, context, d)
               [] n.kind = "Token" -> TokenParser_parseOn(g, n, p, context, d)
               [] n.kind = "Trimming" -> TrimmingParser_parseOn(g, n, p, context, d)
               [] n.kind = "PossessiveRepeating" ->
                      PossessiveRepeatingParser_parseOn(g, n, p, context, d)
               [] n.kind = "GreedyRepeating" ->
                      GreedyRepeatingParser_parseOn(g, n, p, context, d)
               [] n.kind = "LazyRepeating" ->
                      LazyRepeatingParser_parseOn(g, n, p, context, d)
    IN  Ret(r.res, <<Invocation(d, p, context, r.res)>> \o r.log)

\* Parser.parse(input)
parse(h, p, input) == parseOn(h, p, Context(input, 0), 0)

---------------------------------------------------------------------------
(* The grammars and inputs the operations are applied to                   *)

Operands ==
    << char("a"), char("b"), epsilon, failure, letter, whitespace,
       SequenceParser(<<1, 2>>) >>

K == Len(Operands)

Pair(i) == <<((i - 1) \div K) + 1, ((i - 1) % K) + 1>>
Triple(i) ==
    <<((i - 1) \div (MaxOperand * MaxOperand)) + 1,
      (((i - 1) \div MaxOperand) % MaxOperand) + 1,
      ((i - 1) % MaxOperand) + 1>>

\* the (min, max) of the generated repeaters: 0 <= min <= max <= MaxRepeat
Ranges ==
    SelectSeq([i \in 1..((MaxRepeat + 1) * (MaxRepeat + 1)) |->
                  <<(i - 1) \div (MaxRepeat + 1), (i - 1) % (MaxRepeat + 1)>>],
              LAMBDA r : r[1] <= r[2])
R == Len(Ranges)

\* p.seq(q), p.seq(q).seq(r), p.or(q), p.or(q).or(r)
SequenceFamily ==
    [i \in 1..(K * K) |-> SequenceParser(Pair(i))]
    \o [i \in 1..(MaxOperand * MaxOperand * MaxOperand) |-> SequenceParser(Triple(i))]
ChoiceFamily ==
    [i \in 1..(K * K) |-> ChoiceParser(Pair(i))]
    \o [i \in 1..(MaxOperand * MaxOperand * MaxOperand) |-> ChoiceParser(Triple(i))]
\* p.and(), p.map(f), p.token()
AndFamily == [i \in 1..K |-> AndParser(i)]
ActionFamily == [i \in 1..K |-> ActionParser(i, "f")]
TokenFamily == [i \in 1..K |-> TokenParser(i)]
\* p.trim(t)
TrimmingFamily == [i \in 1..(K * K) |-> TrimmingParser(Pair(i)[1], Pair(i)[2])]
\* p.repeat(min, max), and letter().plus()
PossessiveFamily ==
    [i \in 1..(K * R) |->
        PossessiveRepeatingParser(((i - 1) \div R) + 1,
                                  Ranges[((i - 1) % R) + 1][1],
                                  Ranges[((i - 1) % R) + 1][2])]
    \o << PossessiveRepeatingParser(5, 1, Unbounded) >>
\* p.repeatGreedy(limit, min, max) and char('a').starGreedy(char('a').seq(char('b'))),
\* p.repeatLazy(limit, min, max)
GreedyFamily ==
    [i \in 1..(K * K * R) |->
        GreedyRepeatingParser(Pair(((i - 1) \div R) + 1)[1],
                              Pair(((i - 1) \div R) + 1)[2],
                              Ranges[((i - 1) % R) + 1][1],
                              Ranges[((i - 1) % R) + 1][2])]
    \o << GreedyRepeatingParser(1, 7, 0, Unbounded) >>
LazyFamily ==
    [i \in 1..(K * K * R) |->
        LazyRepeatingParser(Pair(((i - 1) \div R) + 1)[1],
                            Pair(((i - 1) \div R) + 1)[2],
                            Ranges[((i - 1) % R) + 1][1],
                            Ranges[((i - 1) % R) + 1][2])]

\* the nodes up to the token parsers, then p.token().map(t -> t.value)
TokenBase == Len(Operands \o SequenceFamily \o ChoiceFamily \o AndFamily \o ActionFamily)
TokenValueFamily == [i \in 1..K |-> ActionParser(TokenBase + i, "tokenValue")]

Combinators ==
    Operands \o SequenceFamily \o ChoiceFamily \o AndFamily \o ActionFamily
    \o TokenFamily \o TokenValueFamily \o TrimmingFamily \o PossessiveFamily
    \o GreedyFamily \o LazyFamily

\* the parsers parse and parseOn are called on
Parsers == DOMAIN Combinators

\* the parsers separatedBy is applied to, as parser and as separator
SeparatedOperands ==
    << char("a"), char("b"), epsilon, failure, digit, char(",") >>
L == Len(SeparatedOperands)
DigitId == L - 1
CommaId == L

\* Parser.separatedBy(separator, includeSeparators, optionalSeparatorAtEnd) on
\* parser: the nodes it creates, the first of them getting identity base + 1
separatedBy(base, parser, separator, includeSeparators, optionalSeparatorAtEnd) ==
    << SequenceParser(<<separator, parser>>),
       PossessiveRepeatingParser(base + 1, 0, Unbounded),
       OptionalParser(separator, ParserRef(separator)),
       SequenceParser(IF optionalSeparatorAtEnd
                      THEN <<parser, base + 2, base + 3>>
                      ELSE <<parser, base + 2>>),
       [ActionParser(base + 4, "separatedBy") EXCEPT
           !.closure = [separator |-> separator,
                        includeSeparators |-> includeSeparators,
                        optionalSeparatorAtEnd |-> optionalSeparatorAtEnd]] >>

\* the number of nodes of one separatedBy, and of its applications
SeparatedSize == Len(separatedBy(0, 1, 1, FALSE, FALSE))
SeparatedCount == L * L * Cardinality(BOOLEAN) * Cardinality(BOOLEAN)

\* the graph of the b-th application, b from 0: every parser, separator and
\* flags
SeparatedGrammar(b) ==
    SeparatedOperands
    \o separatedBy(L, (b \div (4 * L)) + 1, ((b \div 4) % L) + 1,
                   (b \div 2) % 2 = 1, b % 2 = 1)

\* the node separatedBy returns
SeparatedRoot == L + SeparatedSize

Grammar == Combinators

Alphabet == {"a", "b", " "}

RECURSIVE StringsOf(_)
StringsOf(len) ==
    IF len = 0 THEN {<<>>}
    ELSE LET shorter == StringsOf(len - 1)
         IN  shorter \cup {Append(s, c) : s \in {t \in shorter : Len(t) = len - 1}, c \in Alphabet}

Examples ==
    {<<"a", "b", "c">>, <<"1", "2", "3">>, <<"a", "a", "a", "b">>,
     <<"1", ",", "2", ",", "3">>}

Inputs == StringsOf(MaxLen) \cup Examples

---------------------------------------------------------------------------
(* The state machine: the operations of the library applied one at a time  *)

Idle ==
    [name |-> "idle", parser |-> Nil, context |-> Context(<<>>, 0),
     value |-> Undefined, message |-> NoMessage, position |-> undefined]

\* the contexts a parser is handed: any position of any input
Contexts == {Context(buffer, position) : buffer \in Inputs, position \in 0..MaxLen}
PlainContexts == {c \in Contexts : c.position <= Len(c.buffer)}

\* the value of the optional position argument: omitted, or a position
Positions == {undefined} \cup 0..MaxLen

Values == {Null, Chr("a"), List(<<>>)}
Messages == {"letter expected", "unable to parse"}

\* a repeater built by star or plus runs its delegate up to 65536 times when
\* the delegate succeeds at position 1; those parses are not enumerated
Enumerated(p, context) ==
    IF Grammar[p].max # Unbounded THEN TRUE
    ELSE ~isSuccess(parseOn(Grammar, Grammar[p].delegate,
                            Context(context.buffer, JsOr(context.position, 1)), 0).res)

\* the state of the variables an operation does not use
NoComposite ==
    [completed |-> FALSE, delegate |-> Nil, defined |-> <<>>, undefined |-> <<>>,
     handed |-> <<>>]
NoReturn == [t |-> "none"]

\* a separatedBy whose inner sep-then-parser sequence succeeds right after
\* the first element repeats it up to 65536 times; those parses are not
\* enumerated
EnumeratedSeparated(h, root, context) ==
    LET sequence == h[h[root].delegate]
        first == parseOn(h, sequence.parsers[1], context, 0).res
    IN  IF ~isSuccess(first) THEN TRUE
        ELSE ~isSuccess(parseOn(h, h[sequence.parsers[2]].delegate, first, 0).res)

Init ==
    /\ op = Idle
    /\ result = Context(<<>>, 0)
    /\ log = <<>>
    /\ heap = <<>>
    /\ composite = NoComposite
    /\ returned = NoReturn

\* context.success(value, position?)
CallSuccess ==
    /\ op = Idle
    /\ \E context \in PlainContexts, value \in Values, position \in Positions :
          /\ op' = [Idle EXCEPT !.name = "success", !.context = context,
                                !.value = value, !.position = position]
          /\ result' = ContextSuccess(context, value, position)
          /\ log' = <<>>
          /\ UNCHANGED <<heap, composite, returned>>

\* context.failure(message, position?)
CallFailure ==
    /\ op = Idle
    /\ \E context \in PlainContexts, message \in Messages, position \in Positions :
          /\ op' = [Idle EXCEPT !.name = "failure", !.context = context,
                                !.message = message, !.position = position]
          /\ result' = ContextFailure(context, message, position)
          /\ log' = <<>>
          /\ UNCHANGED <<heap, composite, returned>>

\* parser.parse(input)
Parse ==
    /\ op = Idle
    /\ \E p \in Parsers, input \in Inputs :
          /\ Enumerated(p, Context(input, 0))
          /\ LET r == parse(Grammar, p, input)
             IN  /\ op' = [Idle EXCEPT !.name = "parse", !.parser = p,
                                       !.context = Context(input, 0)]
                 /\ result' = r.res
                 /\ log' = r.log
                 /\ UNCHANGED <<heap, composite, returned>>

\* parser.parseOn(context) on a context past the start of the input
ParseOn ==
    /\ op = Idle
    /\ \E p \in Parsers, context \in PlainContexts :
          /\ context.position > 0
          /\ Enumerated(p, context)
          /\ LET r == parseOn(Grammar, p, context, 0)
             IN  /\ op' = [Idle EXCEPT !.name = "parseOn", !.parser = p,
                                       !.context = context]
                 /\ result' = r.res
                 /\ log' = r.log
                 /\ UNCHANGED <<heap, composite, returned>>

\* parser.separatedBy(separator, includeSeparators, optionalSeparatorAtEnd)
\* .parse(input)
SeparatedBy ==
    /\ op = Idle
    /\ \E b \in 0..(SeparatedCount - 1), input \in Inputs :
          /\ EnumeratedSeparated(SeparatedGrammar(b), SeparatedRoot, Context(input, 0))
          /\ LET r == parse(SeparatedGrammar(b), SeparatedRoot, input)
             IN  /\ op' = [Idle EXCEPT !.name = "separatedBy",
                                       !.parser = SeparatedRoot,
                                       !.context = Context(input, 0)]
                 /\ result' = r.res
                 /\ log' = r.log
                 /\ heap' = SeparatedGrammar(b)
                 /\ UNCHANGED <<composite, returned>>

Next ==
    \/ CallSuccess
    \/ CallFailure
    \/ Parse
    \/ ParseOn
    \/ SeparatedBy

Spec == Init /\ [][Next]_vars

---------------------------------------------------------------------------
(* What an operation did, read from the invocation log                     *)

Parsing == op.name \in {"parse", "parseOn"}
Root == Grammar[op.parser]

\* the parseOn invocations the root parser made itself, in call order
Direct == SelectSeq(log, LAMBDA e : e.depth = 1 /\ e.type = "parseOn")
\* the callback calls the root parser made itself
Callbacks == SelectSeq(log, LAMBDA e : e.depth = 1 /\ e.type = "func")

SameBufferAndPosition(a, b) == a.buffer = b.buffer /\ a.position = b.position

---------------------------------------------------------------------------
(* C1: Context.success and Context.failure                                 *)

\* C1: success(value, pos) and failure(message, pos) return a result over the
\* same buffer whose position is the supplied pos when one is given and the
\* context's current position otherwise.
C1_SuppliedPositionElseCurrent ==
    op.name \in {"success", "failure"} =>
        /\ result.buffer = op.context.buffer
        /\ result.position = IF op.position # undefined THEN op.position
                             ELSE op.context.position

---------------------------------------------------------------------------
(* C2: sequence                                                            *)

\* C2: a sequence runs its children left to right, each child starting where
\* the previous one ended; when all succeed it succeeds at the last child's
\* end position with the list of the child values in order; at the first
\* failing child it returns that child's Failure and invokes no later child.
C2_SequenceLeftToRight ==
    (Parsing /\ Root.kind = "Sequence") =>
        LET calls == Direct
            m == Len(calls)
        IN  /\ m \in 1..Len(Root.parsers)
            /\ \A i \in 1..m : calls[i].parser = Root.parsers[i]
            /\ SameBufferAndPosition(calls[1].context, op.context)
            /\ \A i \in 2..m :
                  SameBufferAndPosition(calls[i].context, calls[i - 1].result)
            /\ \A i \in 1..(m - 1) : isSuccess(calls[i].result)
            /\ isSuccess(calls[m].result) =>
                  /\ m = Len(Root.parsers)
                  /\ isSuccess(result)
                  /\ SameBufferAndPosition(result, calls[m].result)
                  /\ result.value = List([i \in 1..m |-> calls[i].result.value])
            /\ isFailure(calls[m].result) => result = calls[m].result

\* a sequence of three children stops at its second child, which fails
C2_Witness ==
    /\ Parsing /\ Root.kind = "Sequence"
    /\ Len(Root.parsers) = 3
    /\ Len(Direct) = 2
    /\ isFailure(result)
    /\ isSuccess(Direct[1].result)

---------------------------------------------------------------------------
(* C3: ordered choice                                                      *)

\* C3: a choice tries its alternatives in declared order, each at the original
\* input position; it returns the first Success and invokes no later
\* alternative; when every alternative fails it returns the Failure of the
\* last alternative.
C3_ChoiceInOrder ==
    (Parsing /\ Root.kind = "Choice") =>
        LET calls == Direct
            m == Len(calls)
        IN  /\ m \in 1..Len(Root.parsers)
            /\ \A i \in 1..m :
                  /\ calls[i].parser = Root.parsers[i]
                  /\ SameBufferAndPosition(calls[i].context, op.context)
            /\ \A i \in 1..(m - 1) : isFailure(calls[i].result)
            /\ result = calls[m].result
            /\ isFailure(calls[m].result) => m = Len(Root.parsers)

\* a choice of three alternatives returns the Success of its second one
C3_Witness ==
    /\ Parsing /\ Root.kind = "Choice"
    /\ Len(Root.parsers) = 3
    /\ Len(Direct) = 2
    /\ isSuccess(result)
    /\ op.context.position > 0

---------------------------------------------------------------------------
(* Running a child parser repeatedly                                       *)

\* the results of running p again and again, each run on the result of the
\* previous one, from current: at most n runs, ending at the first run that
\* does not succeed
RECURSIVE Runs(_, _, _, _)
Runs(p, current, n, acc) ==
    IF n = 0 THEN acc
    ELSE LET r == parseOn(Grammar, p, current, 0).res
         IN  IF isSuccess(r) THEN Runs(p, r, n - 1, Append(acc, r))
             ELSE Append(acc, r)

\* how many of the runs succeeded
Successes(runs) ==
    IF Len(runs) > 0 /\ ~isSuccess(runs[Len(runs)]) THEN Len(runs) - 1 ELSE Len(runs)

\* the context after the first k runs
AfterRuns(runs, k) == IF k = 0 THEN op.context ELSE runs[k]

\* the values of the first k runs
RunValues(runs, k) == List([i \in 1..k |-> runs[i].value])

Largest(S) == CHOOSE k \in S : \A j \in S : j <= k
Smallest(S) == CHOOSE k \in S : \A j \in S : k <= j

---------------------------------------------------------------------------
(* C4: possessive repetition                                               *)

\* C4: p.repeat(min, max) runs p repeatedly without backtracking: fewer than
\* min successes in a row give p's Failure; otherwise the result is a Success
\* holding the first k values, k the number of consecutive successes capped
\* at max, positioned after the k-th success.  letter().plus() on 'abc' is a
\* Success at 3 with ['a','b','c'], on '123' a Failure at 0 'letter expected'.
C4_PossessiveRepeat ==
    (Parsing /\ Root.kind = "PossessiveRepeating") =>
        LET runs == Runs(Root.delegate, op.context, Root.max, <<>>)
            k == Successes(runs)
        IN  /\ k < Root.min => result = runs[k + 1]
            /\ k >= Root.min =>
                  /\ isSuccess(result)
                  /\ result.value = RunValues(runs, k)
                  /\ SameBufferAndPosition(result, AfterRuns(runs, k))
            /\ (op.name = "parse" /\ Root = PossessiveRepeatingParser(5, 1, Unbounded)) =>
                  /\ op.context.buffer = <<"a", "b", "c">> =>
                        result = Success(<<"a", "b", "c">>, 3,
                                         List(<<Chr("a"), Chr("b"), Chr("c")>>))
                  /\ op.context.buffer = <<"1", "2", "3">> =>
                        result = Failure(<<"1", "2", "3">>, 0, "letter expected")

---------------------------------------------------------------------------
(* C5: action                                                              *)

\* C5: p.map(f) calls f only when p succeeds: then the result is a Success at
\* p's end position with value f(v); when p fails the result is p's Failure,
\* f is not called and no error is raised.
C5_MapOnlyOnSuccess ==
    (Parsing /\ Root.kind = "Action") =>
        /\ Len(Direct) = 1
        /\ Direct[1].parser = Root.delegate
        /\ isSuccess(Direct[1].result) =>
              /\ Len(Callbacks) = 1
              /\ Callbacks[1].func = Root.func
              /\ Callbacks[1].arg = Direct[1].result.value
              /\ result = Success(op.context.buffer, Direct[1].result.position,
                                  CallFunc(Root.func, Direct[1].result.value))
        /\ isFailure(Direct[1].result) =>
              /\ Len(Callbacks) = 0
              /\ result.kind # "Throw"
              /\ result = Direct[1].result

---------------------------------------------------------------------------
(* C6: and-predicate                                                       *)

\* C6: p.and() accepts exactly the inputs p accepts; on success its result
\* has the starting position and p's value, on failure it is p's Failure.
C6_AndLookahead ==
    (Parsing /\ Root.kind = "And") =>
        /\ Len(Direct) = 1
        /\ Direct[1].parser = Root.delegate
        /\ isSuccess(result) <=> isSuccess(Direct[1].result)
        /\ isSuccess(Direct[1].result) =>
              /\ SameBufferAndPosition(result, op.context)
              /\ result.value = Direct[1].result.value
        /\ isFailure(Direct[1].result) => result = Direct[1].result

---------------------------------------------------------------------------
(* C7: token                                                               *)

\* the parseOn invocations two levels below the root
Inner == SelectSeq(log, LAMBDA e : e.depth = 2 /\ e.type = "parseOn")

\* C7: p.token() succeeds exactly when p succeeds, with a Token holding p's
\* value, the starting position and p's end position; mapping the token back
\* to its value gives p's result; when p fails p.token() returns p's Failure.
C7_TokenRoundTrip ==
    /\ (Parsing /\ Root.kind = "Token") =>
          /\ Len(Direct) = 1
          /\ Direct[1].parser = Root.delegate
          /\ isSuccess(result) <=> isSuccess(Direct[1].result)
          /\ isSuccess(Direct[1].result) =>
                /\ result.position = Direct[1].result.position
                /\ result.value = Token(Direct[1].result.value, op.context.buffer,
                                        op.context.position, Direct[1].result.position)
          /\ isFailure(Direct[1].result) => result = Direct[1].result
    /\ (Parsing /\ Root.kind = "Action" /\ Root.func = "tokenValue") =>
          /\ Len(Inner) = 1
          /\ Inner[1].parser = Grammar[Root.delegate].delegate
          /\ result = Inner[1].result

---------------------------------------------------------------------------
(* C8: trim                                                                *)

\* the index of the first direct invocation that did not succeed
FirstUnsuccessful(calls) ==
    Smallest({i \in 1..Len(calls) : ~isSuccess(calls[i].result)})

\* C8: p.trim(t) skips every leading match of t, runs p, then skips every
\* trailing match of t: when p succeeds the result is a Success with p's
\* value positioned after the last trailing match; when p fails after the
\* leading matches the result is p's Failure.
C8_TrimBothSides ==
    (Parsing /\ Root.kind = "Trimming" /\ result.kind # "Diverge") =>
        LET calls == Direct
            j == FirstUnsuccessful(calls)
            start == IF j = 1 THEN op.context ELSE calls[j - 1].result
            p == calls[j + 1]
            rest == SubSeq(calls, j + 2, Len(calls))
            t == Len(rest)
            stop == IF t = 1 THEN p.result ELSE rest[t - 1].result
        IN  /\ \E i \in 1..Len(calls) : ~isSuccess(calls[i].result)
            /\ \A i \in 1..j : calls[i].parser = Root.trimmer
            /\ Len(calls) >= j + 1
            /\ p.parser = Root.delegate
            /\ SameBufferAndPosition(p.context, start)
            /\ isFailure(p.result) => (result = p.result /\ t = 0)
            /\ isSuccess(p.result) =>
                  /\ t >= 1
                  /\ \A i \in 1..t : rest[i].parser = Root.trimmer
                  /\ \A i \in 1..(t - 1) : isSuccess(rest[i].result)
                  /\ isFailure(rest[t].result)
                  /\ isSuccess(result)
                  /\ result.value = p.result.value
                  /\ SameBufferAndPosition(result, stop)

---------------------------------------------------------------------------
(* C9, C10: repetition up to a limit                                       *)

\* the counts k, min <= k <= max, such that p succeeds k times in a row and
\* limit succeeds at the position after those k steps
LimitReachedAt(runs) ==
    {k \in Root.min..Successes(runs) :
        isSuccess(parseOn(Grammar, Root.limit, AfterRuns(runs, k), 0).res)}

\* C9: p.repeatGreedy(limit, min, max) succeeds with exactly k elements, k the
\* largest count with min <= k <= max such that p succeeds k times in a row
\* and limit succeeds after those k steps; the result is positioned there,
\* limit is not consumed.  char('a').starGreedy(char('a').seq(char('b'))) on
\* 'aaab' succeeds having consumed 'aa'.
C9_GreedyLargest ==
    (Parsing /\ Root.kind = "GreedyRepeating") =>
        LET runs == Runs(Root.delegate, op.context, Root.max, <<>>)
            ks == LimitReachedAt(runs)
        IN  /\ isSuccess(result) <=> ks # {}
            /\ ks # {} =>
                  /\ result.value = RunValues(runs, Largest(ks))
                  /\ SameBufferAndPosition(result, AfterRuns(runs, Largest(ks)))
            /\ (op.name = "parse" /\ Root = GreedyRepeatingParser(1, 7, 0, Unbounded)
                /\ op.context.buffer = <<"a", "a", "a", "b">>) =>
                  result = Success(<<"a", "a", "a", "b">>, 2,
                                   List(<<Chr("a"), Chr("a")>>))

\* C10: p.repeatLazy(limit, min, max) succeeds with exactly k elements, k the
\* smallest count with min <= k <= max such that p succeeds k times in a row
\* and limit succeeds after those k steps; the result is positioned there.
\* If p fails or max is reached before limit succeeds, the result is the
\* most recent Failure of limit.
C10_LazySmallest ==
    (Parsing /\ Root.kind = "LazyRepeating") =>
        LET runs == Runs(Root.delegate, op.context, Root.max, <<>>)
            ks == LimitReachedAt(runs)
            s == Successes(runs)
        IN  /\ isSuccess(result) <=> ks # {}
            /\ ks # {} =>
                  /\ result.value = RunValues(runs, Smallest(ks))
                  /\ SameBufferAndPosition(result, AfterRuns(runs, Smallest(ks)))
            /\ (ks = {} /\ s >= Root.min) =>
                  result = parseOn(Grammar, Root.limit, AfterRuns(runs, s), 0).res

---------------------------------------------------------------------------
(* C11: separatedBy                                                        *)

\* the (sep, p) pairs that match one after the other from current, each
\* with the results of its two parsers: at most n of them
RECURSIVE SeparatedSteps(_, _, _, _, _)
SeparatedSteps(p, sep, current, n, acc) ==
    IF n = 0 THEN acc
    ELSE LET s == parseOn(heap, sep, current, 0).res
             e == parseOn(heap, p, s, 0).res
         IN  IF isSuccess(s) /\ isSuccess(e)
             THEN SeparatedSteps(p, sep, e, n - 1, Append(acc, [sep |-> s, p |-> e]))
             ELSE acc

\* the values of the steps in input order, with or without the separators
StepValues(steps, includeSeparators) ==
    IF includeSeparators
    THEN [i \in 1..(2 * Len(steps)) |->
             IF i % 2 = 1 THEN steps[(i + 1) \div 2].sep.value
             ELSE steps[i \div 2].p.value]
    ELSE [i \in 1..Len(steps) |-> steps[i].p.value]

\* C11: p.separatedBy(sep, includeSeparators, optionalSepAtEnd) accepts
\* p (sep p)* plus one trailing sep when optionalSepAtEnd, and returns one
\* flat list: the values of p in input order, interleaved with the values of
\* sep exactly when includeSeparators; the trailing separator's value appears
\* only when it was present and includeSeparators.  digit().separatedBy(
\* char(','), false) on '1,2,3' is a Success at 5 with ['1','2','3'].
C11_SeparatedByFlatList ==
    op.name = "separatedBy" =>
        LET c == heap[op.parser].closure
            p == heap[heap[op.parser].delegate].parsers[1]
            first == parseOn(heap, p, op.context, 0).res
            steps == SeparatedSteps(p, c.separator, first,
                                    Len(op.context.buffer) + 1, <<>>)
            last == IF steps = <<>> THEN first ELSE steps[Len(steps)].p
            trailing == parseOn(heap, c.separator, last, 0).res
            present == c.optionalSeparatorAtEnd /\ isSuccess(trailing)
            stop == IF present THEN trailing ELSE last
            values == <<first.value>> \o StepValues(steps, c.includeSeparators)
                      \o (IF present /\ c.includeSeparators
                          THEN <<trailing.value>> ELSE <<>>)
        IN  /\ isSuccess(result) <=> isSuccess(first)
            /\ isSuccess(first) =>
                  /\ result.value = List(values)
                  /\ SameBufferAndPosition(result, stop)
            /\ (p = DigitId /\ c.separator = CommaId /\ ~c.includeSeparators
                /\ ~c.optionalSeparatorAtEnd
                /\ op.context.buffer = <<"1", ",", "2", ",", "3">>) =>
                  result = Success(<<"1", ",", "2", ",", "3">>, 5,
                                   List(<<Chr("1"), Chr("2"), Chr("3")>>))

---------------------------------------------------------------------------
(* The graph of parsers: children, replacement, construction               *)

ListKinds == {"Sequence", "Choice"}
LeafKinds == {"Character", "Epsilon", "Failure"}

\* Parser.getChildren of a node
getChildren(n) ==
    CASE n.kind \in ListKinds -> n.parsers
      [] n.kind = "Trimming" -> <<n.delegate, n.trimmer>>
      [] n.kind \in {"GreedyRepeating", "LazyRepeating"} -> <<n.delegate, n.limit>>
      [] n.kind \in LeafKinds -> <<>>
      [] OTHER -> <<n.delegate>>

\* a replace that stops at the first child it has rewritten
Node_replace_firstOccurrence(n, source, target) ==
    LET children == getChildren(n)
        first == IF \E i \in DOMAIN children : children[i] = source
                 THEN CHOOSE i \in DOMAIN children :
                          /\ children[i] = source
                          /\ \A j \in 1..(i - 1) : children[j] # source
                 ELSE 0
    IN  CASE first = 0 -> n
          [] n.kind \in ListKinds -> [n EXCEPT !.parsers[first] = target]
          [] first = 1 -> [n EXCEPT !.delegate = target]
          [] n.kind = "Trimming" -> [n EXCEPT !.trimmer = target]
          [] OTHER -> [n EXCEPT !.limit = target]

\* Parser.replace(source, target) on the slots of one node
Node_replace(n, source, target) ==
    LET swap(x) == IF x = source THEN target ELSE x
    IN  CASE n.kind \in ListKinds ->
                [n EXCEPT !.parsers = [i \in 1..Len(n.parsers) |-> swap(n.parsers[i])]]
          [] n.kind = "Trimming" ->
                [n EXCEPT !.delegate = swap(n.delegate), !.trimmer = swap(n.trimmer)]
          [] n.kind \in {"GreedyRepeating", "LazyRepeating"} ->
                [n EXCEPT !.delegate = swap(n.delegate), !.limit = swap(n.limit)]
          [] n.kind \in LeafKinds -> n
          [] OTHER -> [n EXCEPT !.delegate = swap(n.delegate)]

\* parser.replace(source, target) in heap h: a list parser writes into its
\* _parsers array, which every parser holding the same array sees
replace(h, parser, source, target) ==
    IF h[parser].kind \in ListKinds
    THEN [q \in DOMAIN h |->
             IF h[q].kind \in ListKinds /\ h[q].array = h[parser].array
             THEN Node_replace(h[q], source, target)
             ELSE h[q]]
    ELSE [h EXCEPT ![parser] = Node_replace(h[parser], source, target)]

\* SetableParser.set(parser)
set(h, setable, parser) ==
    replace(h, setable, getChildren(h[setable])[1], parser)

\* the identity of the next object created in heap h
New(h) == Len(h) + 1

\* char(c): a new parser with a new matcher object
NewChar(h, c) ==
    Append(h, [char(c) EXCEPT !.matcher = [type |-> "single", value |-> charCodeAt(c),
                                           id |-> New(h)]])
\* parser.setable()
setable(h, parser) == Append(h, SetableParser(parser))
\* undefined_(message)
undefined_(h) ==
    setable(Append(h, [failure EXCEPT !.message = "undefined parser"]), New(h))
\* parser.seq(other): a sequence receiver is flattened, and the constructor
\* of a sequence copies the array it is given
seq(h, parser, other) ==
    Append(h, [SequenceParser(IF h[parser].kind = "Sequence"
                              THEN Append(h[parser].parsers, other)
                              ELSE <<parser, other>>)
                  EXCEPT !.array = New(h)])
\* parser.or(other): a choice receiver is flattened into a new array
or(h, parser, other) ==
    Append(h, [ChoiceParser(IF h[parser].kind = "Choice"
                            THEN Append(h[parser].parsers, other)
                            ELSE <<parser, other>>)
                  EXCEPT !.array = New(h)])

---------------------------------------------------------------------------
(* Reflection (reflection.ts): the iterator over the parsers of a graph    *)

\* new _ParserIterator(root)
ParserIterator(root) ==
    [todo |-> <<root>>, done |-> <<>>, current |-> Nil, more |-> TRUE]

RECURSIVE ParserIterator_moveNext(_, _)

\* a moveNext that goes on with the first child only
ParserIterator_moveNext_firstChild(h, it) ==
    IF it.todo = <<>>
    THEN [it EXCEPT !.current = Nil, !.more = FALSE]
    ELSE LET current == it.todo[Len(it.todo)]
             popped == SubSeq(it.todo, 1, Len(it.todo) - 1)
             children == getChildren(h[current])
         IN  IF \E i \in DOMAIN it.done : it.done[i] = current
             THEN ParserIterator_moveNext(h, [it EXCEPT !.todo = popped])
             ELSE [todo |-> popped \o (IF children = <<>> THEN <<>>
                                        ELSE <<children[1]>>),
                   done |-> Append(it.done, current),
                   current |-> current, more |-> TRUE]

\* _ParserIterator.moveNext in heap h: the iterator after the call, more
\* being the value returned
ParserIterator_moveNext(h, it) ==
    IF it.todo = <<>>
    THEN [it EXCEPT !.current = Nil, !.more = FALSE]
    ELSE LET current == it.todo[Len(it.todo)]
             popped == SubSeq(it.todo, 1, Len(it.todo) - 1)
         IN  IF \E i \in DOMAIN it.done : it.done[i] = current
             THEN ParserIterator_moveNext(h, [it EXCEPT !.todo = popped])
             ELSE [todo |-> popped \o getChildren(h[current]),
                   done |-> Append(it.done, current),
                   current |-> current, more |-> TRUE]

\* a copy that keeps the _parsers array of its receiver
copy_sharedArray(h, parser) ==
    Append(h, IF h[parser].kind = "Composite"
              THEN DelegateParser(h[parser].delegate)
              ELSE h[parser])

\* parser.copy(): a new parser with the fields of the receiver; the
\* constructor of a sequence or a choice copies the array it is given, and
\* CompositeParser inherits the copy of DelegateParser
copy(h, parser) ==
    Append(h, IF h[parser].kind \in ListKinds
              THEN [h[parser] EXCEPT !.array = New(h)]
              ELSE IF h[parser].kind = "Composite"
              THEN DelegateParser(h[parser].delegate)
              ELSE h[parser])

\* what a call of match leaves: the value returned and the array seen, or
\* the error thrown
Matched(ok, seen) == [ok |-> ok, seen |-> seen, error |-> "none"]
MatchError(error, seen) == [ok |-> FALSE, seen |-> seen, error |-> error]

\* the classes that inherit match of Parser
NoMatchOverride ==
    ListKinds \cup {"Delegate", "Setable", "And", "Token", "Trimming",
                    "Continuation", "Composite"}

RECURSIVE match(_, _, _, _, _)

\* Parser._matchChildren(other, seen): the for loop from index i on
RECURSIVE Parser_matchChildren(_, _, _, _, _, _)
Parser_matchChildren(h, this, other, seen, i, calls) ==
    LET thisChildren == getChildren(h[this])
        otherChildren == getChildren(h[other])
    IN  IF Len(thisChildren) # Len(otherChildren) THEN Matched(FALSE, seen)
        ELSE IF i > Len(thisChildren) THEN Matched(TRUE, seen)
        ELSE LET r == match(h, thisChildren[i], otherChildren[i], seen, calls)
             IN  IF ~r.ok THEN r
                 ELSE Parser_matchChildren(h, this, other, r.seen, i + 1, calls)

\* Parser.match(other, seen); other is Nil for the undefined that a field
\* read gives, and other['constructor'] then throws
Parser_match(h, this, other, seen, calls) ==
    IF this = other \/ (\E i \in DOMAIN seen : seen[i] = this)
    THEN Matched(TRUE, seen)
    ELSE IF other = Nil THEN MatchError("TypeError", Append(seen, this))
    ELSE IF h[this].kind = h[other].kind
    THEN Parser_matchChildren(h, this, other, Append(seen, this), 1, calls)
    ELSE Matched(FALSE, Append(seen, this))

\* parser.match(other, seen) of the classes: Parser.match, then the fields
\* the class of the receiver compares. The limits are matched by a call
\* with no array seen; calls are the pairs of such calls in progress, and a
\* call that is in progress already goes on for ever, which ends in the
\* RangeError of the call stack
match(h, this, other, seen, calls) ==
    LET r == Parser_match(h, this, other, seen, calls)
        a == h[this]
        b == IF other = Nil THEN Node("undefined") ELSE h[other]
    IN  IF ~r.ok THEN r
        ELSE IF other = Nil /\ a.kind \notin NoMatchOverride
        THEN MatchError("TypeError", r.seen)
        ELSE CASE a.kind = "Character" ->
                      [r EXCEPT !.ok = (a.matcher = b.matcher /\ a.message = b.message)]
               [] a.kind = "Failure" -> [r EXCEPT !.ok = (a.message = b.message)]
               [] a.kind = "Epsilon" -> [r EXCEPT !.ok = (a.result = b.result)]
               [] a.kind = "Optional" -> [r EXCEPT !.ok = (a.otherwise = b.otherwise)]
               [] a.kind = "Action" ->
                      [r EXCEPT !.ok = (a.func = b.func /\ a.closure = b.closure)]
               [] a.kind = "PossessiveRepeating" ->
                      [r EXCEPT !.ok = (a.min = b.min /\ a.max = b.max)]
               [] a.kind \in {"GreedyRepeating", "LazyRepeating"} ->
                      IF ~(a.min = b.min /\ a.max = b.max) THEN [r EXCEPT !.ok = FALSE]
                      ELSE IF <<a.limit, b.limit>> \in calls
                      THEN MatchError("RangeError", r.seen)
                      ELSE LET l == match(h, a.limit, b.limit, <<>>,
                                          calls \cup {<<a.limit, b.limit>>})
                           IN  [l EXCEPT !.seen = r.seen]
               [] OTHER -> r

\* parser._id: no class of parsers declares or assigns this field
Parser_id(parser) == Undefined

\* new Map(): the entries that set adds and has looks for, and the
\* properties that an assignment mapping[key] = value adds to the object
NewMap == [entries |-> {}, properties |-> <<>>]
Map_has(mapping, key) == key \in mapping.entries
Map_assign(mapping, key, value) ==
    [mapping EXCEPT !.properties =
        [k \in (DOMAIN @) \cup {key} |-> IF k = key THEN value ELSE @[k]]]
Map_property(mapping, key) == mapping.properties[key]

RECURSIVE removeSetable(_, _, _)
\* _removeSetable(parser): the while loop, seen being the setables it has
\* gone through; Nil when the loop never ends
removeSetable(h, parser, seen) ==
    IF h[parser].kind # "Setable" THEN parser
    ELSE IF parser \in seen THEN Nil
    ELSE removeSetable(h, getChildren(h[parser])[1], seen \cup {parser})

\* what the callbacks given to forEach read and write: the heap, the
\* parsers recorded, the mapping and the flag changed of transformParser,
\* and whether a loop has been entered that never ends
Closure(h) ==
    [h |-> h, parsers |-> <<>>, mapping |-> NewMap, changed |-> FALSE,
     diverged |-> FALSE]

\* callbacks that look for the target and replace nothing
Rewire_nothing(fn, s, parent, source) ==
    IF fn = "transformParser" THEN s
    ELSE IF removeSetable(s.h, source, {}) = Nil THEN [s EXCEPT !.diverged = TRUE]
    ELSE s

\* the callbacks given to parent.getChildren().forEach, applied to source:
\* the rewiring of transformParser and that of removeSetables
Rewire(fn, s, parent, source) ==
    IF fn = "transformParser"
    THEN IF Map_has(s.mapping, Parser_id(source))
         THEN [s EXCEPT !.h = replace(@, parent, source,
                                      Map_property(s.mapping, Parser_id(source))),
                        !.changed = TRUE]
         ELSE s
    ELSE LET target == removeSetable(s.h, source, {})
         IN  IF target = Nil THEN [s EXCEPT !.diverged = TRUE]
             ELSE IF source # target
             THEN [s EXCEPT !.h = replace(@, parent, source, target)]
             ELSE s

\* parent.getChildren().forEach(callback) from index j on: children is the
\* array getChildren returned, which is the _parsers array itself for a
\* list parser and a new array for the others
RECURSIVE Children_forEach(_, _, _, _, _)
Children_forEach(fn, s, parent, children, j) ==
    IF s.diverged \/ j > Len(children) THEN s
    ELSE Children_forEach(fn,
                          Rewire(fn, s, parent,
                                 IF s.h[parent].kind \in ListKinds
                                 THEN s.h[parent].parsers[j] ELSE children[j]),
                          parent, children, j + 1)

\* the callbacks given to allParser(...).forEach, applied to parser: one
\* that records the parser, the first of transformParser with the identity
\* as func, and those that rewire the children
Visit(fn, s, parser) ==
    CASE fn = "record" -> [s EXCEPT !.parsers = Append(@, parser)]
      [] fn = "copy" ->
            [s EXCEPT !.h = copy(@, parser),
                      !.mapping = Map_assign(@, Parser_id(parser), New(s.h))]
      [] OTHER -> Children_forEach(fn, s, parser, getChildren(s.h[parser]), 1)

\* _ParserIterable.forEach(fn): the while loop from iterator it on
RECURSIVE ParserIterable_forEach(_, _, _)
ParserIterable_forEach(it, fn, s) ==
    LET next == ParserIterator_moveNext(s.h, it)
    IN  IF s.diverged \/ ~next.more THEN s
        ELSE ParserIterable_forEach(next, fn, Visit(fn, s, next.current))

\* allParser(root), as the sequence of the parsers it iterates over
allParser(h, root) ==
    ParserIterable_forEach(ParserIterator(root), "record", Closure(h)).parsers

\* what a function of reflection.ts leaves: the heap and the value returned
Reflected(h, value) == [h |-> h, returned |-> value]
Endless == [t |-> "diverge"]
ReferenceError == [t |-> "error", error |-> "ReferenceError", name |-> "Map"]

\* transformParser: the while (true) loop
RECURSIVE transformParser_loop(_, _)
transformParser_loop(s, root) ==
    LET start == Map_property(s.mapping, Parser_id(root))
        pass == ParserIterable_forEach(ParserIterator(start), "transformParser",
                                       [s EXCEPT !.changed = FALSE])
    IN  IF pass.changed THEN transformParser_loop(pass, root)
        ELSE Reflected(pass.h, ParserRef(start))

\* transformParser(root, func) with the identity as func
transformParser(h, root) ==
    transformParser_loop(
        ParserIterable_forEach(ParserIterator(root), "copy", Closure(h)), root)

\* removeSetables(root)
removeSetables(h, root) ==
    LET s == ParserIterable_forEach(ParserIterator(root), "removeSetables", Closure(h))
        target == removeSetable(s.h, root, {})
    IN  IF s.diverged \/ target = Nil THEN Reflected(s.h, Endless)
        ELSE Reflected(s.h, ParserRef(target))

\* uniques.firstWhere: a Set has no method of this name
Set_firstWhere == Undefined
TypeError == [t |-> "error", error |-> "TypeError", name |-> "firstWhere"]
NoSet == [t |-> "error", error |-> "ReferenceError", name |-> "Set"]

\* removeDuplicates(root): the callback on the first child of the walk calls
\* uniques.firstWhere, and the heap is as it was until then
removeDuplicates(h, root) ==
    LET parents == allParser(h, root)
    IN  IF /\ \E i \in DOMAIN parents : getChildren(h[parents[i]]) # <<>>
           /\ Set_firstWhere = Undefined
        THEN Reflected(h, TypeError)
        ELSE Reflected(h, ParserRef(root))

---------------------------------------------------------------------------
(* SpecGraph: a graph is built one parser at a time, rewired with set, and *)
(* then parsed with or reflected on                                        *)

GraphIdle ==
    [name |-> "idle", parser |-> Nil, target |-> Nil,
     context |-> Context(<<>>, 0), before |-> <<>>]

\* the operations that leave a graph that can be built on
Building == op.name \in {"idle", "new", "set"}

GraphInputs == {<<"a">>, <<"a", "a", "a", "b">>}

GraphInit ==
    /\ op = GraphIdle
    /\ result = Context(<<>>, 0)
    /\ log = <<>>
    /\ heap = <<>>
    /\ composite = NoComposite
    /\ returned = NoReturn

\* the graph after the creation of one more parser
Created(h) ==
    /\ heap' = h
    /\ op' = [GraphIdle EXCEPT !.name = "new", !.parser = Len(h)]
    /\ UNCHANGED <<result, log, composite, returned>>

\* char('a'), char('b')
GraphChar ==
    /\ Building /\ Len(heap) < MaxNodes
    /\ \E c \in {"a", "b"} : Created(NewChar(heap, c))

\* parser.setable()
GraphSetable ==
    /\ Building /\ Len(heap) < MaxNodes
    /\ \E parser \in DOMAIN heap : Created(setable(heap, parser))

\* parser.seq(other)
GraphSeq ==
    /\ Building /\ Len(heap) < MaxNodes
    /\ \E parser \in DOMAIN heap, other \in DOMAIN heap :
          Created(seq(heap, parser, other))

\* parser.or(other)
GraphOr ==
    /\ Building /\ Len(heap) < MaxNodes
    /\ \E parser \in DOMAIN heap, other \in DOMAIN heap :
          Created(or(heap, parser, other))

\* setable.set(parser)
GraphSet ==
    /\ Building
    /\ \E setable_ \in DOMAIN heap, parser \in DOMAIN heap :
          /\ heap[setable_].kind = "Setable"
          /\ heap' = set(heap, setable_, parser)
          /\ op' = [GraphIdle EXCEPT !.name = "set", !.parser = setable_,
                                     !.target = parser, !.before = heap]
          /\ UNCHANGED <<result, log, composite, returned>>

\* p = undefined_() and char('a').seq(p).or(char('b')), created in this order
\* in the empty heap: p is parser 2 and the choice is parser 6
RecursiveParsers ==
    LET p == undefined_(<<>>)
        a == NewChar(p, "a")
        sequence == seq(a, Len(a), Len(p))
        b == NewChar(sequence, "b")
    IN  or(b, Len(sequence), Len(b))

\* p = undefined_(); p.set(char('a').seq(p).or(char('b')))
RecursiveGrammar ==
    /\ op = GraphIdle /\ heap = <<>>
    /\ heap' = set(RecursiveParsers, 2, Len(RecursiveParsers))
    /\ op' = [GraphIdle EXCEPT !.name = "set", !.parser = 2,
                               !.target = Len(RecursiveParsers),
                               !.before = RecursiveParsers]
    /\ UNCHANGED <<result, log, composite, returned>>

\* parser.parse(input) on a parser of the graph
GraphParse ==
    /\ Building
    /\ \E parser \in DOMAIN heap, input \in GraphInputs :
          LET r == parse(heap, parser, input)
          IN  /\ op' = [GraphIdle EXCEPT !.name = "parse", !.parser = parser,
                                         !.context = Context(input, 0)]
              /\ result' = r.res
              /\ log' = r.log
              /\ UNCHANGED <<heap, composite, returned>>

\* allParser(root).forEach(fn) with an fn that records its argument
AllParser ==
    /\ Building
    /\ \E root \in DOMAIN heap :
          /\ op' = [GraphIdle EXCEPT !.name = "allParser", !.parser = root]
          /\ returned' = List(allParser(heap, root))
          /\ UNCHANGED <<result, log, heap, composite>>

\* transformParser(root, identity), where the runtime has a Map or has not
TransformParser ==
    /\ Building
    /\ \E root \in DOMAIN heap, map \in BOOLEAN :
          LET reflected == IF map THEN transformParser(heap, root)
                           ELSE Reflected(heap, ReferenceError)
          IN  /\ op' = [GraphIdle EXCEPT !.name = "transformParser",
                                         !.parser = root, !.before = heap]
              /\ heap' = reflected.h
              /\ returned' = reflected.returned
              /\ UNCHANGED <<result, log, composite>>

\* removeSetables(root)
RemoveSetables ==
    /\ Building
    /\ \E root \in DOMAIN heap :
          LET reflected == removeSetables(heap, root)
          IN  /\ op' = [GraphIdle EXCEPT !.name = "removeSetables",
                                         !.parser = root, !.before = heap]
              /\ heap' = reflected.h
              /\ returned' = reflected.returned
              /\ UNCHANGED <<result, log, composite>>

\* removeDuplicates(root), where the runtime has a Set or has not
RemoveDuplicates ==
    /\ Building
    /\ \E root \in DOMAIN heap, set_ \in BOOLEAN :
          LET reflected == IF set_ THEN removeDuplicates(heap, root)
                           ELSE Reflected(heap, NoSet)
          IN  /\ op' = [GraphIdle EXCEPT !.name = "removeDuplicates",
                                         !.parser = root, !.before = heap]
              /\ heap' = reflected.h
              /\ returned' = reflected.returned
              /\ UNCHANGED <<result, log, composite>>

GraphNext ==
    \/ GraphChar
    \/ GraphSetable
    \/ GraphSeq
    \/ GraphOr
    \/ GraphSet
    \/ RecursiveGrammar
    \/ GraphParse
    \/ AllParser
    \/ TransformParser
    \/ RemoveSetables
    \/ RemoveDuplicates

SpecGraph == GraphInit /\ [][GraphNext]_vars

---------------------------------------------------------------------------
(* C12: Setable                                                            *)

\* the parser of the recursive grammar that set was called on
RecursiveRoot ==
    /\ heap = set(RecursiveParsers, 2, Len(RecursiveParsers))
    /\ op.parser = 2

\* invocation i of the log enters a parser at a position at which an
\* invocation that has not returned yet entered it
ReEntered(i) ==
    \E j \in 1..(i - 1) :
        /\ log[j].type = "parseOn"
        /\ log[j].parser = log[i].parser
        /\ log[j].context.position = log[i].context.position
        /\ \A k \in (j + 1)..i : log[k].depth > log[j].depth

\* C12: after s.set(q) the Setable s has q as its sole child, and every
\* parse that enters a Setable goes on into its current child on the same
\* context and returns that child's result; the grammar p = undefined_();
\* p.set(char('a').seq(p).or(char('b'))) parses 'aaab' to a Success that has
\* consumed all 4 characters.
C12_SetableDelegates ==
    /\ op.name = "set" => getChildren(heap[op.parser]) = <<op.target>>
    /\ op.name = "parse" =>
          \A i \in 1..Len(log) :
              (/\ log[i].type = "parseOn"
               /\ heap[log[i].parser].kind = "Setable"
               /\ ~ReEntered(i)) =>
                  /\ i < Len(log)
                  /\ log[i + 1].type = "parseOn"
                  /\ log[i + 1].depth = log[i].depth + 1
                  /\ log[i + 1].parser = heap[log[i].parser].delegate
                  /\ log[i + 1].context = log[i].context
                  /\ log[i + 1].result = log[i].result
    /\ (op.name = "parse" /\ RecursiveRoot
        /\ op.context.buffer = <<"a", "a", "a", "b">>) =>
          /\ isSuccess(result)
          /\ result.position = 4

---------------------------------------------------------------------------
(* CompositeParser (composite.ts)                                          *)

\* the names of the productions of a grammar
Names == {"start", "list"}

\* the errors of petitparser.error
completedParser == [t |-> "error", error |-> "Completed Parser", name |-> ""]
undefinedProduction(name) ==
    [t |-> "error", error |-> "Undefined production", name |-> name]
redefinedProduction(name) ==
    [t |-> "error", error |-> "Redefined production", name |-> name]

\* what a method leaves: the fields of the composite, the heap, and the
\* value it returns or the error it throws
Outcome(c, h, value) == [c |-> c, h |-> h, returned |-> value]

\* a table of placeholders that hands out its first entry under every name
Placeholder_anyName(c, name) ==
    IF c.undefined = <<>> THEN Nil ELSE c.undefined[1].parser

\* this._undefined[name]: the placeholder stored under name, or nothing
Placeholder(c, name) ==
    LET found == SelectSeq(c.undefined, LAMBDA e : e.name = name)
    IN  IF found = <<>> THEN Nil ELSE found[1].parser

\* a ref that does not look at _completed
CompositeParser_ref_uncompleted(c, h, name) ==
    IF Placeholder(c, name) = Nil
    THEN LET created ==
                 setable(Append(h, [failure EXCEPT
                                      !.message = "Uninitalized production: " \o name]),
                         New(h))
         IN  Outcome([c EXCEPT !.undefined =
                                 Append(@, [name |-> name, parser |-> Len(created)])],
                     created, ParserRef(Len(created)))
    ELSE Outcome(c, h, ParserRef(Placeholder(c, name)))

\* CompositeParser.ref(name)
CompositeParser_ref(c, h, name) ==
    IF c.completed
    THEN IF c.defined[name] # Nil
         THEN Outcome(c, h, ParserRef(c.defined[name]))
         ELSE Outcome(c, h, undefinedProduction(name))
    ELSE IF Placeholder(c, name) = Nil
         THEN LET created ==
                      setable(Append(h, [failure EXCEPT
                                           !.message = "Uninitalized production: " \o name]),
                              New(h))
              IN  Outcome([c EXCEPT !.undefined =
                                      Append(@, [name |-> name, parser |-> Len(created)])],
                          created, ParserRef(Len(created)))
         ELSE Outcome(c, h, ParserRef(Placeholder(c, name)))

\* a def that overwrites the definition of a defined name
CompositeParser_def_overwriting(c, h, name, parser) ==
    IF c.completed THEN Outcome(c, h, completedParser)
    ELSE Outcome([c EXCEPT !.defined[name] = parser], h, Undefined)

\* CompositeParser.def(name, parser)
CompositeParser_def(c, h, name, parser) ==
    IF c.completed THEN Outcome(c, h, completedParser)
    ELSE IF c.defined[name] # Nil THEN Outcome(c, h, redefinedProduction(name))
    ELSE Outcome([c EXCEPT !.defined[name] = parser], h, Undefined)

\* a redef that looks for the definition before it looks at _completed
CompositeParser_redef_definedFirst(c, h, name, replacement) ==
    IF c.defined[name] = Nil THEN Outcome(c, h, undefinedProduction(name))
    ELSE IF c.completed THEN Outcome(c, h, completedParser)
    ELSE IF replacement.t = "parser"
    THEN Outcome([c EXCEPT !.defined[name] = replacement.id], h, Undefined)
    ELSE Outcome([c EXCEPT !.defined[name] = New(h)],
                 Append(h, ActionParser(c.defined[name], replacement.name)),
                 Undefined)

\* a redef that gives its function the placeholder of the name
CompositeParser_redef_placeholder(c, h, name, replacement) ==
    IF c.completed THEN Outcome(c, h, completedParser)
    ELSE IF c.defined[name] = Nil THEN Outcome(c, h, undefinedProduction(name))
    ELSE IF replacement.t = "parser"
    THEN Outcome([c EXCEPT !.defined[name] = replacement.id], h, Undefined)
    ELSE Outcome([c EXCEPT !.defined[name] = New(h)],
                 Append(h, ActionParser(IF Placeholder(c, name) # Nil
                                        THEN Placeholder(c, name)
                                        ELSE c.defined[name],
                                        replacement.name)),
                 Undefined)

\* CompositeParser.redef(name, replacement): replacement is a parser, or the
\* function parser => parser.map(func)
CompositeParser_redef(c, h, name, replacement) ==
    IF c.completed THEN Outcome(c, h, completedParser)
    ELSE IF c.defined[name] = Nil THEN Outcome(c, h, undefinedProduction(name))
    ELSE IF replacement.t = "parser"
    THEN Outcome([c EXCEPT !.defined[name] = replacement.id], h, Undefined)
    ELSE Outcome([c EXCEPT !.defined[name] = New(h)],
                 Append(h, ActionParser(c.defined[name], replacement.name)),
                 Undefined)

\* CompositeParser.action(name, func)
CompositeParser_action(c, h, name, func) ==
    CompositeParser_redef(c, h, name, MethodRef(func))

RECURSIVE CompositeParser_complete_loop(_, _, _)
\* a loop over this._undefined that sets no placeholder
CompositeParser_complete_loop_withoutSet(c, h, i) ==
    IF i > Len(c.undefined)
    THEN Outcome([c EXCEPT !.undefined = <<>>, !.completed = TRUE], h, Undefined)
    ELSE LET name == c.undefined[i].name
         IN  IF c.defined[name] = Nil
             THEN Outcome(c, h, undefinedProduction(name))
             ELSE CompositeParser_complete_loop(c, h, i + 1)

\* CompositeParser._complete: the for-in loop over this._undefined, from
\* its i-th entry on, and the two assignments after it
CompositeParser_complete_loop(c, h, i) ==
    IF i > Len(c.undefined)
    THEN Outcome([c EXCEPT !.undefined = <<>>, !.completed = TRUE], h, Undefined)
    ELSE LET name == c.undefined[i].name
         IN  IF c.defined[name] = Nil
             THEN Outcome(c, h, undefinedProduction(name))
             ELSE CompositeParser_complete_loop(
                      c, set(h, c.undefined[i].parser, c.defined[name]), i + 1)

\* a _complete that resolves the placeholders without asking for 'start'
CompositeParser_complete_withoutStart(c, h) ==
    CompositeParser_complete_loop(c, h, 1)

\* CompositeParser._complete
CompositeParser_complete(c, h) ==
    LET start == CompositeParser_ref(c, h, "start")
    IN  IF start.returned.t = "error" THEN start
        ELSE CompositeParser_complete_loop(
                 [start.c EXCEPT !.delegate = start.returned.id], start.h, 1)

---------------------------------------------------------------------------
(* SpecComposite: the constructor of a CompositeParser runs initialize,    *)
(* which calls def, ref, redef and action, then _complete; the same        *)
(* methods are called again on the completed parser                        *)

CompositeIdle == [name |-> "constructor", production |-> ""]

\* super(failure('Uninitalized production: start')) and the field initialisers
CompositeInit ==
    /\ op = CompositeIdle
    /\ result = Context(<<>>, 0)
    /\ log = <<>>
    /\ heap = << [failure EXCEPT !.message = "Uninitalized production: start"] >>
    /\ composite = [completed |-> FALSE, delegate |-> 1,
                    defined |-> [name \in Names |-> Nil],
                    undefined |-> <<>>,
                    handed |-> [name \in Names |-> {}]]
    /\ returned = NoReturn

\* most parsers in the heap of a grammar: the composite's first delegate,
\* a placeholder and its failure for every name, and MaxDefinitions more
MaxHeap == 1 + 2 * Cardinality(Names) + MaxDefinitions

\* an exception that leaves _complete leaves the constructor
Constructing == ~(op.name = "_complete" /\ returned.t = "error")

\* the state after a method call
Called(name, production, outcome) ==
    /\ op' = [name |-> name, production |-> production]
    /\ composite' = outcome.c
    /\ heap' = outcome.h
    /\ returned' = outcome.returned
    /\ UNCHANGED <<result, log>>

\* ref(name); the history of the placeholders handed out goes with it
Ref ==
    /\ Constructing
    /\ \E name \in Names :
          LET outcome == CompositeParser_ref(composite, heap, name)
          IN  Called("ref", name,
                     IF composite.completed \/ outcome.returned.t = "error"
                     THEN outcome
                     ELSE [outcome EXCEPT !.c.handed[name] = @ \cup {outcome.returned.id}])

\* the parser given to def or redef: a placeholder that ref returned, or a
\* new char('a')
Arguments ==
    {composite.undefined[i].parser : i \in DOMAIN composite.undefined}
    \cup {New(heap)}
WithArgument(parser) ==
    IF parser = New(heap) THEN NewChar(heap, "a") ELSE heap

\* def(name, parser)
Def ==
    /\ Constructing
    /\ \E name \in Names, parser \in Arguments :
          /\ Len(WithArgument(parser)) <= MaxHeap
          /\ Called("def", name,
                    CompositeParser_def(composite, WithArgument(parser), name, parser))

\* redef(name, parser)
Redef ==
    /\ Constructing
    /\ \E name \in Names, parser \in Arguments :
          /\ Len(WithArgument(parser)) <= MaxHeap
          /\ Called("redef", name,
                    CompositeParser_redef(composite, WithArgument(parser), name,
                                          ParserRef(parser)))

\* the function given to action: f in the first call, g in the later ones
NextFunction(h) ==
    IF \E q \in DOMAIN h : h[q].kind = "Action" THEN "g" ELSE "f"

\* action(name, func)
Action ==
    /\ Constructing
    /\ Len(heap) < MaxHeap
    /\ \E name \in Names :
          Called("action", name,
                 CompositeParser_action(composite, heap, name, NextFunction(heap)))

\* this._complete() at the end of the constructor
Complete ==
    /\ Constructing
    /\ ~composite.completed
    /\ Called("_complete", "", CompositeParser_complete(composite, heap))

CompositeNext ==
    \/ Ref
    \/ Def
    \/ Redef
    \/ Action
    \/ Complete

SpecComposite == CompositeInit /\ [][CompositeNext]_vars

---------------------------------------------------------------------------
(* C13..C17: the productions of a CompositeParser                          *)

\* the names that _complete resolves: those that ref handed a placeholder
\* for during initialize, and 'start'
Referenced(name) == composite.handed[name] # {} \/ name = "start"

C16_CompletedIsFinal ==
    [][ composite.completed =>
           /\ composite'.completed
           /\ composite'.defined = composite.defined
           /\ (op'.name \in {"def", "redef", "action"} =>
                  returned' = completedParser) ]_vars

\* a redef of an undefined name on a completed parser
C16_Witness ==
    /\ composite.completed
    /\ op.name = "redef"
    /\ returned = completedParser
    /\ composite.defined[op.production] = Nil

---------------------------------------------------------------------------
(* C18: allParser                                                          *)

\* the parsers at most k getChildren steps away from those of set S
RECURSIVE Within(_, _, _)
Within(h, S, k) ==
    IF k = 0 THEN S
    ELSE Within(h, S \cup UNION {{getChildren(h[q])[i] :
                                     i \in DOMAIN getChildren(h[q])} : q \in S},
                k - 1)

\* the parsers reachable from root in heap h
Reachable(h, root) == Within(h, {root}, Len(h))

\* C18: allParser(root) terminates and enumerates every parser reachable
\* from root exactly once, the root first, and no other parser, whether the
\* graph has cycles or parsers reachable along several paths.
C18_AllParserEachOnce ==
    op.name = "allParser" =>
        LET elements == returned.items
        IN  /\ {elements[i] : i \in DOMAIN elements} = Reachable(heap, op.parser)
            /\ \A i, j \in DOMAIN elements : elements[i] = elements[j] => i = j
            /\ elements[1] = op.parser

\* an enumeration from a root that lies on a cycle, has a parser with two
\* different children, and leaves a parser of the heap out
C18_Witness ==
    /\ op.name = "allParser"
    /\ \E q \in DOMAIN heap : q \notin Reachable(heap, op.parser)
    /\ \E i \in DOMAIN getChildren(heap[op.parser]) :
          op.parser \in Reachable(heap, getChildren(heap[op.parser])[i])
    /\ \E q \in Reachable(heap, op.parser) :
          Cardinality({getChildren(heap[q])[i] : i \in DOMAIN getChildren(heap[q])}) > 1

---------------------------------------------------------------------------
(* C19: transformParser                                                    *)

\* C19: transformParser(root, identity) terminates on every graph and
\* returns a parser from which no parser of the original graph is
\* reachable, which root matches, with one copy for every parser reachable
\* from root; the parsers of the original graph are as they were.
C19_TransformCopiesGraph ==
    op.name = "transformParser" =>
        /\ returned.t = "parser"
        /\ Reachable(heap, returned.id) \cap DOMAIN op.before = {}
        /\ match(heap, op.parser, returned.id, <<>>, {}).ok
        /\ Cardinality(Reachable(heap, returned.id))
              = Cardinality(Reachable(op.before, op.parser))
        /\ SubSeq(heap, 1, Len(op.before)) = op.before

---------------------------------------------------------------------------
(* C20: removeSetables                                                     *)

\* the first parser on the delegate chain of q that is not a Setable, Nil
\* when there is none within k steps
RECURSIVE ChainEnd(_, _, _)
ChainEnd(h, q, k) ==
    IF h[q].kind # "Setable" THEN q
    ELSE IF k = 0 THEN Nil
    ELSE ChainEnd(h, h[q].delegate, k - 1)

\* no cycle of heap h is made of Setables only
NoSetableCycle(h) == \A q \in DOMAIN h : ChainEnd(h, q, Len(h)) # Nil

\* C20: on a graph without a cycle made of Setables only, removeSetables(
\* root) returns the first parser on root's delegate chain that is not a
\* Setable, no Setable is reachable from it afterwards, every child of a
\* parser reachable from root is the end of the delegate chain of the child
\* it was, and nothing else has changed.
C20_RemoveSetables ==
    (op.name = "removeSetables" /\ NoSetableCycle(op.before)) =>
        LET before == op.before
            end(q) == ChainEnd(before, q, Len(before))
            reached == Reachable(before, op.parser)
        IN  /\ returned = ParserRef(end(op.parser))
            /\ \A q \in Reachable(heap, returned.id) : heap[q].kind # "Setable"
            /\ DOMAIN heap = DOMAIN before
            /\ \A q \in DOMAIN heap :
                  /\ Len(getChildren(heap[q])) = Len(getChildren(before[q]))
                  /\ \A i \in DOMAIN getChildren(before[q]) :
                        getChildren(heap[q])[i] =
                            IF q \in reached THEN end(getChildren(before[q])[i])
                            ELSE getChildren(before[q])[i]
                  /\ heap[q] = Node_replace(before[q], Nil, Nil)
                     \/ getChildren(heap[q]) # getChildren(before[q])

\* removeSetables on a Setable root that is reached again from its own
\* child, which rewires a parser and returns another parser than the root
C20_Witness ==
    /\ op.name = "removeSetables"
    /\ NoSetableCycle(op.before)
    /\ op.before[op.parser].kind = "Setable"
    /\ op.parser \in Reachable(op.before, op.before[op.parser].delegate)
    /\ returned.t = "parser"
    /\ returned.id # op.parser
    /\ \E q \in DOMAIN heap : heap[q] # op.before[q] /\ heap[q].kind # "Setable"

---------------------------------------------------------------------------
(* C21: removeDuplicates                                                   *)

\* whether parser accepts input in heap h
Accepts(h, parser, input) == isSuccess(parse(h, parser, input).res)

---------------------------------------------------------------------------
(* C26: removeSetables on a cycle of Setables                              *)

\* the Setables of heap h whose delegate chain never leaves the Setables
OnSetableCycle(h) == {q \in DOMAIN h : ChainEnd(h, q, Len(h)) = Nil}

\* C26: removeSetables(root) returns a parser when a Setable whose delegate
\* chain leads back to itself is reachable from root, and leaves every such
\* Setable as it was.
C26_RemoveSetablesOnCycle ==
    (/\ op.name = "removeSetables"
     /\ Reachable(op.before, op.parser) \cap OnSetableCycle(op.before) # {}) =>
        /\ returned.t = "parser"
        /\ \A q \in OnSetableCycle(op.before) : heap[q] = op.before[q]

---------------------------------------------------------------------------
(* SpecStructure: match, copy, replace, seq and or on the parsers of a     *)
(* graph, and a replace after a seq, an or or a copy                       *)

\* the parsers that a graph of n parsers can hold at identity id
Shapes(n, id) ==
    {epsilon, [char("a") EXCEPT !.matcher = [type |-> "single",
                                             value |-> charCodeAt("a"), id |-> id]]}
    \cup {OptionalParser(x, Undefined) : x \in 1..n}
    \cup {[SequenceParser(<<x, y>>) EXCEPT !.array = id] : x, y \in 1..n}
    \cup {[ChoiceParser(<<x, y>>) EXCEPT !.array = id] : x, y \in 1..n}
    \cup {TrimmingParser(x, y) : x, y \in 1..n}
    \cup {GreedyRepeatingParser(x, y, 0, 1) : x, y \in 1..n}

\* the graphs of n parsers, from the first k identities; the first parser
\* is one without children
RECURSIVE GraphsOf(_, _)
GraphsOf(n, k) ==
    IF k = 0 THEN {<<>>}
    ELSE {Append(g, shape) : g \in GraphsOf(n, k - 1),
                             shape \in {x \in Shapes(n, k) :
                                           k = 1 => x.kind \in LeafKinds}}

\* one parser of every class, over two leaves
KindExamples ==
    << epsilon, [failure EXCEPT !.message = "x"],
       [char("a") EXCEPT !.matcher = [type |-> "single", value |-> charCodeAt("a"),
                                      id |-> 3]],
       [SequenceParser(<<1, 2>>) EXCEPT !.array = 4],
       [ChoiceParser(<<1, 2>>) EXCEPT !.array = 5],
       DelegateParser(1), SetableParser(1), OptionalParser(1, Undefined),
       AndParser(1), ActionParser(1, "f"), TokenParser(1), TrimmingParser(1, 2),
       PossessiveRepeatingParser(1, 0, 1), GreedyRepeatingParser(1, 2, 0, 1),
       LazyRepeatingParser(1, 2, 0, 1), ContinuationParser(1, "handler"),
       CompositeParser(1) >>

\* a sequence with one child in both positions, beside a sequence of two
\* different children
SharedChildExample ==
    << epsilon, epsilon,
       [char("a") EXCEPT !.matcher = [type |-> "single", value |-> charCodeAt("a"),
                                      id |-> 3]],
       [SequenceParser(<<1, 1>>) EXCEPT !.array = 4],
       [SequenceParser(<<2, 3>>) EXCEPT !.array = 5] >>

\* two greedy repeaters that are their own limits
LimitCycleExample ==
    << epsilon, GreedyRepeatingParser(1, 2, 0, 1), GreedyRepeatingParser(1, 3, 0, 1) >>

Graphs ==
    UNION {GraphsOf(n, n) : n \in 1..MaxParsers}
    \cup {KindExamples, SharedChildExample, LimitCycleExample}

StructureIdle ==
    [name |-> "idle", parser |-> Nil, source |-> Nil, target |-> Nil,
     before |-> <<>>]

StructureInit ==
    /\ op = StructureIdle
    /\ result = Context(<<>>, 0)
    /\ log = <<>>
    /\ heap = <<>>
    /\ composite = NoComposite
    /\ returned = NoReturn

\* what a.match(b) gives its caller
MatchOutcome(r) ==
    IF r.error # "none" THEN [t |-> "error", error |-> r.error, name |-> "match"]
    ELSE [t |-> "boolean", value |-> r.ok]

\* parser.match(other)
Match ==
    /\ op = StructureIdle
    /\ \E g \in Graphs : \E parser \in DOMAIN g, other \in DOMAIN g :
          /\ op' = [StructureIdle EXCEPT !.name = "match", !.parser = parser,
                                         !.target = other, !.before = g]
          /\ heap' = g
          /\ returned' = MatchOutcome(match(g, parser, other, <<>>, {}))
          /\ UNCHANGED <<result, log, composite>>

\* parser.copy()
Copy ==
    /\ op = StructureIdle
    /\ \E g \in Graphs : \E parser \in DOMAIN g :
          /\ op' = [StructureIdle EXCEPT !.name = "copy", !.parser = parser,
                                         !.before = g]
          /\ heap' = copy(g, parser)
          /\ returned' = ParserRef(New(g))
          /\ UNCHANGED <<result, log, composite>>

\* parser.seq(other)
StructureSeq ==
    /\ op = StructureIdle
    /\ \E g \in Graphs : \E parser \in DOMAIN g, other \in DOMAIN g :
          /\ op' = [StructureIdle EXCEPT !.name = "seq", !.parser = parser,
                                         !.target = other, !.before = g]
          /\ heap' = seq(g, parser, other)
          /\ returned' = ParserRef(New(g))
          /\ UNCHANGED <<result, log, composite>>

\* parser.or(other)
StructureOr ==
    /\ op = StructureIdle
    /\ \E g \in Graphs : \E parser \in DOMAIN g, other \in DOMAIN g :
          /\ op' = [StructureIdle EXCEPT !.name = "or", !.parser = parser,
                                         !.target = other, !.before = g]
          /\ heap' = or(g, parser, other)
          /\ returned' = ParserRef(New(g))
          /\ UNCHANGED <<result, log, composite>>

\* the state after parser.replace(source, target) in graph g
Replaced(g, parser, source, target) ==
    /\ op' = [name |-> "replace", parser |-> parser, source |-> source,
              target |-> target, before |-> g]
    /\ heap' = replace(g, parser, source, target)
    /\ returned' = Undefined
    /\ UNCHANGED <<result, log, composite>>

\* parser.replace(source, target) on a parser of a graph
Replace ==
    /\ op = StructureIdle
    /\ \E g \in Graphs : \E parser \in DOMAIN g, source \in DOMAIN g, target \in DOMAIN g :
          Replaced(g, parser, source, target)

\* replace on a sequence or a choice that was the receiver of seq, or or
\* copy, or on the parser that call returned
ReplaceLater ==
    /\ op.name \in {"seq", "or", "copy"}
    /\ heap[op.parser].kind \in ListKinds
    /\ \E parser \in {op.parser, returned.id} :
          \E source \in DOMAIN heap, target \in DOMAIN heap :
              Replaced(heap, parser, source, target)

StructureNext ==
    \/ Match
    \/ Copy
    \/ StructureSeq
    \/ StructureOr
    \/ Replace
    \/ ReplaceLater

SpecStructure == StructureInit /\ [][StructureNext]_vars

---------------------------------------------------------------------------
(* C22, C23: match                                                         *)

\* C22: a.match(a) is true, and a.match(b) gives what b.match(a) gives, for
\* all parsers a and b of a graph, a parser with one child in two positions
\* against a parser with two different children included.
C22_MatchReflexiveSymmetric ==
    op.name = "match" =>
        /\ op.parser = op.target => returned = [t |-> "boolean", value |-> TRUE]
        /\ returned = MatchOutcome(match(heap, op.target, op.parser, <<>>, {}))

\* C23: a.match(b) returns true or false on every pair of parsers of a
\* graph with cycles, whether a cycle goes through a delegate, an element of
\* a sequence or a choice, a trimmer or the limit of a repeater.
C23_MatchTerminates ==
    op.name = "match" => returned.t = "boolean"

---------------------------------------------------------------------------
(* C24: copy                                                               *)

\* C24: p.copy() is a new parser, of the class and the scalar fields of p,
\* with the children of p, which p matches, and the parsers there were are
\* as they were; for a parser of every class.
C24_CopyMatches ==
    op.name = "copy" =>
        LET p == op.parser
            new == returned.id
        IN  /\ new \notin DOMAIN op.before
            /\ SubSeq(heap, 1, Len(op.before)) = op.before
            /\ heap[new].kind = heap[p].kind
            /\ [heap[new] EXCEPT !.array = Nil] = [heap[p] EXCEPT !.array = Nil]
            /\ getChildren(heap[new]) = getChildren(heap[p])
            /\ MatchOutcome(match(heap, p, new, <<>>, {}))
                  = [t |-> "boolean", value |-> TRUE]

---------------------------------------------------------------------------
(* C25: replace                                                            *)

\* a parser without its child slots
Scalars(n) ==
    [n EXCEPT !.delegate = Nil, !.parsers = <<>>, !.limit = Nil, !.trimmer = Nil]

\* C25: n.replace(source, target) puts target in every child slot of n that
\* held source, delegate, trimmer, limit and every position of a sequence or
\* a choice alike; the children are otherwise the same in the same order,
\* the other fields of n and all other parsers are as they were, and
\* nothing changes when source is not a child of n.
C25_ReplaceRewritesSlots ==
    op.name = "replace" =>
        LET n == op.parser
            children == getChildren(op.before[n])
        IN  /\ DOMAIN heap = DOMAIN op.before
            /\ \A q \in DOMAIN heap : q # n => heap[q] = op.before[q]
            /\ Scalars(heap[n]) = Scalars(op.before[n])
            /\ Len(getChildren(heap[n])) = Len(children)
            /\ \A i \in DOMAIN children :
                  getChildren(heap[n])[i] =
                      IF children[i] = op.source THEN op.target ELSE children[i]
            /\ (\A i \in DOMAIN children : children[i] # op.source) =>
                  heap = op.before

\* a replace of a child that a sequence or a choice has in both positions,
\* beside another parser that keeps the same children
C25_Witness ==
    /\ op.name = "replace"
    /\ op.source # op.target
    /\ op.before[op.parser].kind \in ListKinds
    /\ op.before[op.parser].parsers = <<op.source, op.source>>
    /\ heap[op.parser].parsers = <<op.target, op.target>>
    /\ \E q \in DOMAIN heap :
          /\ q # op.parser
          /\ getChildren(heap[q]) = <<op.source, op.source>>

---------------------------------------------------------------------------
(* C28: sequences and choices share no list of children                    *)

\* C28: after s.seq(q) on a sequence, c.or(q) on a choice, or copy() on
\* either, the receiver is as it was and the new parser is of its class
\* with its children, followed by q for seq and or; and a replace on one of
\* the two afterwards leaves the children of the other as they were.
C28_NoSharedChildList ==
    [][/\ (/\ op'.name \in {"seq", "or", "copy"}
           /\ op'.before[op'.parser].kind \in
                 CASE op'.name = "seq" -> {"Sequence"}
                   [] op'.name = "or" -> {"Choice"}
                   [] OTHER -> ListKinds) =>
              LET receiver == op'.parser
                  new == returned'.id
                  before == op'.before
              IN  /\ new \notin DOMAIN before
                  /\ heap'[receiver] = before[receiver]
                  /\ heap'[new].kind = before[receiver].kind
                  /\ getChildren(heap'[new]) =
                        IF op'.name = "copy" THEN before[receiver].parsers
                        ELSE before[receiver].parsers \o <<op'.target>>
       /\ (op'.name = "replace" /\ op.name \in {"seq", "or", "copy"}) =>
              \A other \in {op.parser, returned.id} \ {op'.parser} :
                  getChildren(heap'[other]) = getChildren(heap[other])
      ]_vars

\* a replace that rewrote the children of a sequence or a choice while
\* another one, which had the same children, kept them
C28_Witness ==
    /\ op.name = "replace"
    /\ op.before[op.parser].kind \in ListKinds
    /\ heap[op.parser].parsers # op.before[op.parser].parsers
    /\ \E other \in DOMAIN heap :
          /\ other # op.parser
          /\ heap[other].kind = heap[op.parser].kind
          /\ heap[other].parsers = op.before[op.parser].parsers

---------------------------------------------------------------------------
(* C27: the failure of a greedy repetition                                 *)

---------------------------------------------------------------------------
(* C29: completion without a definition of 'start'                         *)

\* C29: when initialize has defined no 'start', _complete registers the
\* placeholder of 'start' and raises the undefined-production error in the
\* constructor, and the parser is not completed, whether a production
\* refers to 'start' or not.
C29_StartMustBeDefined ==
    [][ (op'.name = "_complete" /\ composite.defined["start"] = Nil) =>
           /\ returned'.t = "error"
           /\ returned'.error = "Undefined production"
           /\ Placeholder(composite', "start") # Nil
           /\ ~composite'.completed ]_vars

\* a completion that fails for 'start', which no ref has asked for, in a
\* grammar that defines 'list'
C29_Witness ==
    /\ op.name = "_complete"
    /\ returned = undefinedProduction("start")
    /\ composite.handed["start"] = {}
    /\ composite.defined["list"] # Nil
    /\ composite.defined["start"] = Nil

---------------------------------------------------------------------------
(* C30: redef and action compose in call order                             *)

CompositeInputs == {<<"a">>, <<"b">>}

\* C30: before completion, action(n, func) on a defined n makes the
\* definition of n a new parser over the definition in force, whose value
\* is func of the value of that definition wherever it succeeds, so that
\* actions compose in call order; redef(n, parser) makes the definition of
\* n a parser that is no action and from which the definition it replaces
\* is not reachable.
C30_RedefComposesInOrder ==
    [][ (/\ ~composite.completed
         /\ op'.name \in {"redef", "action"}
         /\ composite.defined[op'.production] # Nil) =>
           LET old == composite.defined[op'.production]
               new == composite'.defined[op'.production]
           IN  IF op'.name = "action"
               THEN /\ new \notin DOMAIN heap
                    /\ heap'[new].delegate = old
                    /\ SubSeq(heap', 1, Len(heap)) = heap
                    /\ \A input \in CompositeInputs :
                          LET before == parse(heap, old, input).res
                              after == parse(heap', new, input).res
                          IN  isSuccess(before) =>
                                 /\ isSuccess(after)
                                 /\ after.value = Applied(heap'[new].func, before.value)
               ELSE /\ heap'[new].kind # "Action"
                    /\ new = old \/ old \notin Reachable(heap', new) ]_vars

\* def(n, char('a')), action(n, f), action(n, g): the definition of n gives
\* g(f('a')) on 'a', while n has a placeholder
C30_Witness ==
    /\ op.name = "action"
    /\ ~composite.completed
    /\ Placeholder(composite, op.production) # Nil
    /\ LET new == composite.defined[op.production]
       IN  /\ new # Nil
           /\ heap[new].func = "g"
           /\ heap[heap[new].delegate].func = "f"
           /\ parse(heap, new, <<"a">>).res.value
                 = Applied("g", Applied("f", Chr("a")))

=============================================================================
